---- MODULE Spec2Model ----
(***************************************************************************)
(* The yap parsing engine: the grammar node algebra (basic/node.rs), the   *)
(* grammar container (basic/grammar.rs) and the explicit-stack parser      *)
(* (parsers/naive.rs with the frames of basic/node/parse_state.rs).        *)
(*                                                                         *)
(* Text is a sequence of one-character strings; offsets are 0-based as in  *)
(* the source, so src[pos..end] is SubSeq(src, pos + 1, end).  An          *)
(* Option<T> is the empty sequence (None) or a one-element sequence        *)
(* (Some).  Nodes are records with one field set for every variant, so     *)
(* that any two nodes can be compared.                                     *)
(***************************************************************************)
EXTENDS Integers, Sequences, FiniteSets, TLC

VARIABLES
    grammar,    \* Grammar { start, rules }: rules is a function name -> Node
    source,     \* the source handed to the parse call
    non_term,   \* the start rule name handed to parse_non_term
    stack,      \* parse_recursive: Vec<StackState>
    curr_step,  \* parse_recursive: Step::ParsingNode / Step::Polling
    cache,      \* State.cache: (name, pos) -> Option<Parsed>
    pc,         \* "idle" | "running" | "done" | "error" | "panic"
    ret,        \* the value the last call returned
    evals,      \* per (name, pos): the results NonTerm(name) at pos has yielded so far
    first,      \* the result of the parse made before a rename (Option)
    op,         \* the last call on the grammar container, with its arguments
    iter,       \* the token iterator in use: its captured state and what it has yielded
    conv,       \* the last conversion of a node or a terminal: what went in, what came out
    memo        \* TRUE: State.cache is in use; FALSE: the reference run that never caches

vars ==
    <<grammar, source, non_term, stack, curr_step, cache, pc, ret, evals, first, op, iter, conv,
      memo>>

(***************************************************************************)
(* Program constants and bounds                                            *)
(***************************************************************************)
\* usize::MAX, the unbounded end of a repetition range, at the width of the checker's integers
UsizeMax == 2147483647

\* check_stack: the parse fails once the stack holds more frames than this
StackLimit == 1000

\* sources are all texts over Alphabet of at most this length
MaxSrcLen == 3

\* the sources of the left-recursive grammars are at most this long
MaxRecSrcLen == 0

Alphabet == {"a", "b"}

None == <<>>
Some(x) == <<x>>
IsSome(o) == Len(o) = 1
IsNone(o) == Len(o) = 0

(***************************************************************************)
(* Node<T> (basic/node.rs)                                                 *)
(***************************************************************************)
\* Text::String(s) and Text::Regex(re); NoText fills the field of the other variants
String(s) == [kind |-> "String", s |-> s]
Regex(re) == [kind |-> "Regex", s |-> re]
NoText == [kind |-> "", s |-> <<>>]

NodeRec(kind, elements, min, max, t, name, tag, meta) ==
    [kind |-> kind, elements |-> elements, min |-> min, max |-> max,
     t |-> t, name |-> name, tag |-> tag, meta |-> meta]

SeqNode(elements)  == NodeRec("Seq", elements, 0, 0, NoText, "", "", {})
AltNode(elements)  == NodeRec("Alt", elements, 0, 0, NoText, "", "", {})
\* Rep { node, range: min..=max }; the boxed node is elements[1]
Rep(node, min, max) == NodeRec("Rep", <<node>>, min, max, NoText, "", "", {})
\* Terminal(T), with T = Text
Terminal(t)        == NodeRec("Terminal", <<>>, 0, 0, t, "", "", {})
NonTerm(name)      == NodeRec("NonTerm", <<>>, 0, 0, NoText, name, "", {})
Tagged(node, tag)  == NodeRec("Tagged", <<node>>, 0, 0, NoText, "", tag, {})
\* Meta { node, meta }: the map is a set of <<key, value>> pairs, one per key
Meta(node, meta)   == NodeRec("Meta", <<node>>, 0, 0, NoText, "", "", meta)

\* the terminals of the grammars below
ta == Terminal(String(<<"a">>))
tb == Terminal(String(<<"b">>))
tab == Terminal(String(<<"a", "b">>))
tempty == Terminal(String(<<>>))
tfoo == Terminal(String(<<"f", "o", "o">>))
tsp == Terminal(String(<<" ">>))
tbar == Terminal(String(<<"b", "a", "r">>))

\* the match arms for the composite nodes left out: only a reference at the top is renamed
rename_top_only(node, old_name, new_name) ==
    IF node.kind = "NonTerm" /\ node.name = old_name
    THEN [node EXCEPT !.name = new_name]
    ELSE node

RECURSIVE rename_reference(_, _, _)
rename_reference(node, old_name, new_name) ==
    CASE node.kind \in {"Seq", "Alt", "Rep", "Tagged", "Meta"} ->
            [node EXCEPT !.elements =
                [i \in DOMAIN node.elements |->
                    rename_reference(node.elements[i], old_name, new_name)]]
      [] node.kind = "NonTerm" /\ node.name = old_name ->
            [node EXCEPT !.name = new_name]
      [] OTHER -> node

RECURSIVE Join(_, _)
Join(texts, sep) ==
    IF Len(texts) = 0 THEN <<>>
    ELSE IF Len(texts) = 1 THEN texts[1]
    ELSE texts[1] \o sep \o Join(Tail(texts), sep)

\* to_ebnf panics on a repetition range other than 0..=1, 1..=MAX, 0..=MAX
RECURSIVE to_ebnf_panics(_)
to_ebnf_panics(node) ==
    \/ /\ node.kind = "Rep"
       /\ <<node.min, node.max>> \notin {<<0, 1>>, <<1, UsizeMax>>, <<0, UsizeMax>>}
    \/ \E i \in DOMAIN node.elements : to_ebnf_panics(node.elements[i])

\* the inside of format!("{s:?}"): a backslash before each quote and backslash
RECURSIVE escape_debug(_)
escape_debug(s) ==
    IF Len(s) = 0 THEN <<>>
    ELSE (IF Head(s) \in {"\"", "\\"} THEN <<"\\", Head(s)>> ELSE <<Head(s)>>)
            \o escape_debug(Tail(s))

\* the literal written bare, without quotes and escapes
text_bare(t) == IF t.kind = "String" THEN t.s ELSE <<"/">> \o t.s \o <<"/">>

\* Text::to_ebnf: format!("{s:?}") of a literal, format!("/{s}/") of a regex
text_to_ebnf(t) ==
    IF t.kind = "String" THEN <<"\"">> \o escape_debug(t.s) \o <<"\"">>
    ELSE <<"/">> \o t.s \o <<"/">>

RECURSIVE to_ebnf(_)
to_ebnf(node) ==
    CASE node.kind = "Seq" ->
            Join([i \in DOMAIN node.elements |-> to_ebnf(node.elements[i])], <<" ">>)
      [] node.kind = "Alt" ->
            Join([i \in DOMAIN node.elements |-> to_ebnf(node.elements[i])], <<" ", "|", " ">>)
      [] node.kind = "Rep" ->
            IF node.min = 0 /\ node.max = 1
            THEN <<"[">> \o to_ebnf(node.elements[1]) \o <<"]">>
            ELSE IF node.min = 1 /\ node.max = UsizeMax
            THEN to_ebnf(node.elements[1]) \o <<"+">>
            ELSE to_ebnf(node.elements[1]) \o <<"*">>
      [] node.kind = "Terminal" -> text_to_ebnf(node.t)
      [] node.kind = "NonTerm" -> <<node.name>>
      [] OTHER -> to_ebnf(node.elements[1])

(***************************************************************************)
(* Text (basic/text.rs), Token (basic/token.rs), Diagnostic and Parsed     *)
(* (parsers/naive.rs)                                                      *)
(***************************************************************************)
\* re.captures(text) for a regex of literal characters: the span of the leftmost
\* occurrence of re in text, as offsets into text
captures(re, text) ==
    LET starts == {i \in 0..(Len(text) - Len(re)) : SubSeq(text, i + 1, i + Len(re)) = re}
    IN  IF starts = {} THEN None
        ELSE LET i == CHOOSE i \in starts : \A j \in starts : i <= j
             IN  Some([start |-> i, end |-> i + Len(re)])

\* the comparison with the source left out: any text of the length matches
parses_any_text(t, src, pos) ==
    IF pos + Len(t.s) <= Len(src) THEN Some(pos + Len(t.s)) ELSE None

\* Text::parses(src, pos): Some(end) or None.  A literal matches when src holds it at
\* pos; a regex matches when its leftmost match in src[pos..] starts at 0
parses(t, src, pos) ==
    IF t.kind = "String"
    THEN LET end == pos + Len(t.s)
         IN  IF end <= Len(src) /\ SubSeq(src, pos + 1, end) = t.s THEN Some(end) ELSE None
    ELSE LET mat == captures(t.s, SubSeq(src, pos + 1, Len(src)))
         IN  IF IsSome(mat) /\ mat[1].start = 0 THEN Some(pos + mat[1].end) ELSE None

\* impl Into<String> for Text
into(t) == IF t.kind = "String" THEN t.s ELSE <<"/">> \o t.s \o <<"/">>

\* impl From<String> for Text: value[1..value.len()-1] panics on the string "/",
\* where the range starts at 1 and ends at 0
from(value) ==
    IF Len(value) > 0 /\ value[1] = "/" /\ value[Len(value)] = "/"
    THEN IF Len(value) = 1 THEN [tag |-> "Panic", value |-> NoText]
         ELSE [tag |-> "Ok", value |-> Regex(SubSeq(value, 2, Len(value) - 1))]
    ELSE [tag |-> "Ok", value |-> String(value)]

Token(start, end, gram, tags, meta, children) ==
    [span |-> [start |-> start, end |-> end], gram |-> gram, tags |-> tags,
     meta |-> meta, children |-> children]

\* the diagnostic whose span covers the source from its beginning
IncompleteFromZero(start, end, expected) ==
    [span |-> [start |-> 0, end |-> end], expected |-> expected]

\* the diagnostic that does not say what was expected
IncompleteUnnamed(start, end, expected) ==
    [span |-> [start |-> start, end |-> end], expected |-> <<>>]

\* Diagnostic::Incomplete { span, expected }
Incomplete(start, end, expected) ==
    [span |-> [start |-> start, end |-> end], expected |-> expected]

Parsed(token, diagnostics, incomplete) ==
    [token |-> token, diagnostics |-> diagnostics, incomplete |-> incomplete]

\* StackPoll::Finished / StackPoll::Feed; Panicked is a panic raised inside a poll
Finished(parsed) == [kind |-> "Finished", parsed |-> parsed]
Feed(state, node, pos) == [kind |-> "Feed", state |-> state, node |-> node, pos |-> pos]
Panicked == [kind |-> "Panic"]

(***************************************************************************)
(* Token iterators (basic/token.rs): iter_label, iter_grams, iter_at_pos   *)
(***************************************************************************)
\* a &Token inside a tree is the path of child indexes from the root to it
RECURSIVE TokenAt(_, _)
TokenAt(root, path) ==
    IF Len(path) = 0 THEN root ELSE TokenAt(root.children[Head(path)], Tail(path))

\* the references to the children of the token at path, in order
children_of(root, path) ==
    [i \in 1..Len(TokenAt(root, path).children) |-> Append(path, i)]

\* the state an iterator's closure captures, the tree it borrows, the items yielded so far
Iter(kind, root, label, pos, queue, current, yielded, done, parsed) ==
    [kind |-> kind, root |-> root, label |-> label, pos |-> pos, stack |-> queue,
     current |-> current, yielded |-> yielded, done |-> done, parsed |-> parsed]
NoIter == Iter("", None, "", 0, <<>>, None, <<>>, FALSE, FALSE)

\* the closed upper end taken into the span
contains_inclusive(span, pos) == span.start <= pos /\ pos <= span.end

\* Range::contains
contains(span, pos) == span.start <= pos /\ pos < span.end

\* token.tags.iter().any(|tag| tag == label)
has_label(token, label) == \E i \in DOMAIN token.tags : token.tags[i] = label

\* token.gram.as_deref() == Some(gram)
has_gram(token, gram) == token.gram = Some(gram)

matches(kind, token, label) ==
    IF kind = "label" THEN has_label(token, label) ELSE has_gram(token, label)

\* the children put at the front of the queue
extend_children_front(queue, refs) == refs \o queue

\* stack.extend(&token.children)
extend_children(queue, refs) == queue \o refs

\* the queue popped at its back
pop_back(queue) == [token |-> queue[Len(queue)], rest |-> SubSeq(queue, 1, Len(queue) - 1)]

\* stack.pop_front()
pop_front(queue) == [token |-> Head(queue), rest |-> Tail(queue)]

\* one call of the closure of iter_label / iter_grams: the while loop up to its return
RECURSIVE next_matching(_, _, _, _)
next_matching(root, kind, label, queue) ==
    IF Len(queue) = 0 THEN [item |-> None, stack |-> queue]
    ELSE LET popped == pop_front(queue)
             rest == extend_children(popped.rest, children_of(root, popped.token))
         IN  IF matches(kind, TokenAt(root, popped.token), label)
             THEN [item |-> Some(popped.token), stack |-> rest]
             ELSE next_matching(root, kind, label, rest)

\* the first child of the token at path whose span contains pos
RECURSIVE first_child_at(_, _, _, _)
first_child_at(root, path, pos, i) ==
    IF i > Len(TokenAt(root, path).children) THEN None
    ELSE IF contains(TokenAt(root, path).children[i].span, pos) THEN Some(Append(path, i))
    ELSE first_child_at(root, path, pos, i + 1)

(***************************************************************************)
(* The frames' poll functions (basic/node/parse_state.rs)                  *)
(***************************************************************************)
ParsingSequence(elements, parsed, diagnostics) ==
    [kind |-> "ParsingSequence", elements |-> elements, parsed |-> parsed,
     diagnostics |-> diagnostics]
ParsingChoice(start_pos, elements, current, parsed) ==
    [kind |-> "ParsingChoice", start_pos |-> start_pos, elements |-> elements,
     current |-> current, parsed |-> parsed]
ParsingRepetition(start_pos, element, min, max, parsed, diagnostics) ==
    [kind |-> "ParsingRepetition", start_pos |-> start_pos, element |-> element,
     min |-> min, max |-> max, parsed |-> parsed, diagnostics |-> diagnostics]
ParsingNonTerminal(start_pos, name) ==
    [kind |-> "ParsingNonTerminal", start_pos |-> start_pos, name |-> name]
ParsingTagged(tag) == [kind |-> "ParsingTagged", tag |-> tag]
ParsingMeta(meta) == [kind |-> "ParsingMeta", meta |-> meta]

\* the tie-break inverted: an incomplete match ranks above a complete one of the same end
choice_key_inverted(p) == <<p.token.span.end, IsSome(p.incomplete)>>

\* the key of sort_by_key in poll_choice: (p.token.span.end, p.incomplete.is_none())
choice_key(p) == <<p.token.span.end, IsNone(p.incomplete)>>

\* the strict order of the keys: with it equal keys end up in reverse order
key_lt(k1, k2) == k1[1] < k2[1] \/ (k1[1] = k2[1] /\ ~k1[2] /\ k2[2])

\* the order of the keys: tuples compare lexicographically, false < true
key_le(k1, k2) == k1[1] < k2[1] \/ (k1[1] = k2[1] /\ (k1[2] => k2[2]))

\* one insertion of the stable sort: x goes after every element whose key is <= its key
RECURSIVE insert_by_key(_, _)
insert_by_key(sorted, x) ==
    IF Len(sorted) = 0 THEN <<x>>
    ELSE LET last == sorted[Len(sorted)]
         IN  IF key_le(choice_key(last[1]), choice_key(x[1]))
             THEN Append(sorted, x)
             ELSE Append(insert_by_key(SubSeq(sorted, 1, Len(sorted) - 1), x), last)

\* parsed.sort_by_key(..): a stable sort of the (Parsed, index) pairs
RECURSIVE sort_by_key(_)
sort_by_key(v) ==
    IF Len(v) = 0 THEN <<>>
    ELSE insert_by_key(sort_by_key(SubSeq(v, 1, Len(v) - 1)), v[Len(v)])

\* the selected alternative, with the diagnostics of the lowest-ranked one in front
pop_with_diagnostics(sorted) ==
    IF Len(sorted) = 1 THEN sorted[1][1]
    ELSE [sorted[Len(sorted)][1] EXCEPT !.diagnostics = sorted[1][1].diagnostics \o @]

\* parsed.pop().map(|p| p.0): the Parsed of the last pair
pop_parsed(sorted) == sorted[Len(sorted)][1]

poll_choice(next, start_pos, elements, current, parsed) ==
    IF Len(elements) = 0 THEN Panicked
    ELSE
    LET parsed1 == IF IsSome(next) THEN Append(parsed, <<next[1], current>>) ELSE parsed
        current1 == current + 1
    IN  IF current1 >= Len(elements)
        THEN IF Len(parsed1) = 0
             THEN Finished(None)
             ELSE LET sorted == sort_by_key(parsed1)
                  IN  Finished(Some(pop_parsed(sorted)))
        ELSE Feed(ParsingChoice(start_pos, elements, current1, parsed1),
                  elements[current1 + 1], start_pos)

\* parsed.first().map(|f| f.span.start).unwrap_or(start_pos)
first_start(parsed, start_pos) ==
    IF Len(parsed) = 0 THEN start_pos ELSE parsed[1].span.start

\* the default taken as 0 instead of start_pos
last_end_or_zero(parsed, start_pos) ==
    IF Len(parsed) = 0 THEN 0 ELSE parsed[Len(parsed)].span.end

\* parsed.last().map(|f| f.span.end).unwrap_or(start_pos)
last_end(parsed, start_pos) ==
    IF Len(parsed) = 0 THEN start_pos ELSE parsed[Len(parsed)].span.end

\* the child's diagnostics put in front of the accumulated ones
extend_front(diagnostics, sub_diag) == sub_diag \o diagnostics

\* diagnostics.extend(sub_diag)
extend(diagnostics, sub_diag) == diagnostics \o sub_diag

\* the guard left out: a zero-width match is taken as a match
keep_zero_width(next) == next

\* the guard at the head of poll_repetition: a zero-width match counts as None
drop_zero_width(next) ==
    IF IsSome(next) /\ next[1].token.span.start >= next[1].token.span.end
    THEN None ELSE next

\* the test on range.start() left out
gives_none_when_empty(parsed, min) == Len(parsed) = 0

\* parsed.len() == 0 && *range.start() > 0
gives_none(parsed, min) == Len(parsed) = 0 /\ min > 0

\* the test left out: a repetition that stops early is never reported short
never_below_min(parsed, min) == FALSE

\* parsed.len() < *range.start()
below_min(parsed, min) == Len(parsed) < min

poll_repetition(next0, element, min, max, parsed, start_pos, diagnostics) ==
    LET next == drop_zero_width(next0)
    IN  IF IsSome(next)
        THEN LET parsed1 == Append(parsed, next[1].token)
                 diagnostics1 == extend(diagnostics, next[1].diagnostics)
             IN  IF Len(parsed1) >= max
                 THEN Finished(Some(Parsed(
                        Token(first_start(parsed1, start_pos), last_end(parsed1, start_pos),
                              None, <<>>, {}, parsed1),
                        diagnostics1, next[1].incomplete)))
                 ELSE Feed(ParsingRepetition(start_pos, element, min, max, parsed1, diagnostics1),
                           element, parsed1[Len(parsed1)].span.end)
        ELSE IF gives_none(parsed, min)
        THEN Finished(None)
        ELSE IF below_min(parsed, min)
        THEN IF to_ebnf_panics(element) THEN Panicked
             ELSE LET end == last_end(parsed, start_pos)
                  IN  Finished(Some(Parsed(
                        Token(first_start(parsed, start_pos), end, None, <<>>, {}, parsed),
                        Append(diagnostics, Incomplete(end, end, to_ebnf(element))),
                        Some(element))))
        ELSE Finished(Some(Parsed(
                Token(first_start(parsed, start_pos), last_end(parsed, start_pos),
                      None, <<>>, {}, parsed),
                diagnostics, None)))

\* the child's token relabelled instead of wrapped: its children become the rule's
relabel_non_terminal(next, name) ==
    IF IsSome(next)
    THEN Some(Parsed(
            Token(next[1].token.span.start, next[1].token.span.end, Some(name), <<>>, {},
                  next[1].token.children),
            next[1].diagnostics, next[1].incomplete))
    ELSE None

\* the rule's token taking over the tags and the metadata of the token it wraps
wrap_keeping_marks(next, name) ==
    IF IsSome(next)
    THEN Some(Parsed(
            Token(next[1].token.span.start, next[1].token.span.end, Some(name),
                  next[1].token.tags, next[1].token.meta, <<next[1].token>>),
            next[1].diagnostics, next[1].incomplete))
    ELSE None

\* the token poll_non_terminal wraps the child's result in
wrap_non_terminal(next, name) ==
    IF IsSome(next)
    THEN Some(Parsed(
            Token(next[1].token.span.start, next[1].token.span.end, Some(name), <<>>, {},
                  <<next[1].token>>),
            next[1].diagnostics, next[1].incomplete))
    ELSE None

\* the offset left out of the key: results are memoized by rule name alone
cache_key_by_name(name, pos) == <<name, 0>>

\* the key of the memo cache: (name, pos)
cache_key(name, pos) == <<name, pos>>

\* a cache that remembers only that the key was tried, not what came out
cache_insert_none(c, key, parsed) ==
    IF key \in DOMAIN c THEN c
    ELSE [k \in DOMAIN c \cup {key} |-> IF k = key THEN None ELSE c[k]]

\* state.cache after poll_non_terminal: the entry is written unless the key is there
cache_insert(c, key, parsed) ==
    IF key \in DOMAIN c THEN c
    ELSE [k \in DOMAIN c \cup {key} |-> IF k = key THEN parsed ELSE c[k]]

poll_non_terminal(next, name, start_pos) == Finished(wrap_non_terminal(next, name))

poll_tagged(next, tag) ==
    IF IsSome(next)
    THEN Finished(Some([next[1] EXCEPT !.token.tags = Append(@, tag)]))
    ELSE Finished(None)

\* the pairs already on the token kept where both maps hold the key
meta_keep_old(old, new) ==
    old \cup {q \in new : \A p \in old : p[1] # q[1]}

\* BTreeMap::extend: the new pairs replace the old ones of the same key
meta_extend(old, new) ==
    {p \in old : \A q \in new : q[1] # p[1]} \cup new

poll_meta(next, meta) ==
    IF IsSome(next)
    THEN Finished(Some([next[1] EXCEPT !.token.meta = meta_extend(@, meta)]))
    ELSE Finished(None)

\* none given while at most one child has matched
is_short(parsed) == Len(parsed) <= 1

\* parsed.is_empty()
is_empty(parsed) == Len(parsed) = 0

\* the child already matched taken as the one expected
last_matched(elements, parsed) == elements[Len(parsed)]

\* let n = parsed.len(); let expected = &elements[n];
next_expected(elements, parsed) == elements[Len(parsed) + 1]

poll_sequence(next, elements, parsed, diagnostics) ==
    IF Len(elements) = 0 THEN Panicked
    ELSE IF IsSome(next)
    THEN LET parsed1 == Append(parsed, next[1].token)
             diagnostics1 == extend(diagnostics, next[1].diagnostics)
         IN  IF Len(elements) = Len(parsed1)
             THEN Finished(Some(Parsed(
                    Token(parsed1[1].span.start, parsed1[Len(parsed1)].span.end,
                          None, <<>>, {}, parsed1),
                    diagnostics1, next[1].incomplete)))
             ELSE Feed(ParsingSequence(elements, parsed1, diagnostics1),
                       elements[Len(parsed1) + 1], parsed1[Len(parsed1)].span.end)
    ELSE IF is_empty(parsed)
    THEN Finished(None)
    ELSE LET end == parsed[Len(parsed)].span.end
             expected == next_expected(elements, parsed)
         IN  IF to_ebnf_panics(expected) THEN Panicked
             ELSE Finished(Some(Parsed(
                    Token(parsed[1].span.start, end, None, <<>>, {}, parsed),
                    Append(diagnostics, Incomplete(end, end, to_ebnf(expected))),
                    Some(expected))))

\* AbstractStackState::poll: the dispatch on the frame's variant
poll(frame, next) ==
    CASE frame.kind = "ParsingSequence" ->
            poll_sequence(next, frame.elements, frame.parsed, frame.diagnostics)
      [] frame.kind = "ParsingChoice" ->
            poll_choice(next, frame.start_pos, frame.elements, frame.current, frame.parsed)
      [] frame.kind = "ParsingRepetition" ->
            poll_repetition(next, frame.element, frame.min, frame.max, frame.parsed,
                            frame.start_pos, frame.diagnostics)
      [] frame.kind = "ParsingNonTerminal" ->
            poll_non_terminal(next, frame.name, frame.start_pos)
      [] frame.kind = "ParsingTagged" -> poll_tagged(next, frame.tag)
      [] OTHER -> poll_meta(next, frame.meta)

(***************************************************************************)
(* Grammar::parse_non_term and parse_recursive (basic/grammar.rs,          *)
(* parsers/naive.rs); Node::action (basic/node.rs)                         *)
(***************************************************************************)
ParsingNode(node, pos) == [kind |-> "ParsingNode", node |-> node, pos |-> pos]
Polling(parsed) == [kind |-> "Polling", parsed |-> parsed]
NoStep == [kind |-> "Idle"]

\* anyhow::Result of a call: Ok(value) or Err(error); names is the NonTerm chain of
\* the recursion-limit message or the name of the missing rule
NoRet == [tag |-> "None", value |-> None, error |-> "", names |-> <<>>]
Ok(value) == [tag |-> "Ok", value |-> value, error |-> "", names |-> <<>>]
Err(error, names) == [tag |-> "Err", value |-> None, error |-> error, names |-> names]

EmptyCache == [k \in {} |-> None]

\* the texts over alphabet of length at most n
RECURSIVE Texts(_, _)
Texts(alphabet, n) ==
    IF n = 0 THEN {<<>>}
    ELSE LET shorter == Texts(alphabet, n - 1)
         IN  shorter \cup {Append(t, c) : t \in {u \in shorter : Len(u) = n - 1}, c \in alphabet}

\* the sources a grammar is run on.  Every run of a left-recursive grammar fills the
\* whole stack, so those get the shorter sources, over the one letter their rules can
\* consume ahead of the recursion
FooSources == {<<"f", "o", "o">>, <<"f", "o", "o", " ", "b", "a", "r">>}

\* the input of tests::test_parse_complex_ebnf: (1+2)*33
ArithSources == {<<"(", "1", "+", "2", ")", "*", "3", "3">>}

SourcesOf(g) ==
    IF \E name \in DOMAIN g.rules : name \in {"Q", "U", "V"}
    THEN Texts({"b"}, MaxRecSrcLen)
    ELSE IF "Foo" \in DOMAIN g.rules THEN FooSources
    ELSE IF "expression" \in DOMAIN g.rules THEN ArithSources
    ELSE Texts(Alphabet, MaxSrcLen)

\* parse_recursive's initialization: an empty stack, the start node at offset 0, State::new
begin_parse(node) ==
    /\ stack' = <<>>
    /\ curr_step' = ParsingNode(node, 0)
    /\ cache' = EmptyCache
    /\ evals' = EmptyCache
    /\ pc' = "running"
    /\ ret' = NoRet

\* Grammar::parse_non_term -> parse_node -> parse_recursive, up to the loop's head
parse_non_term_call(name, src) ==
    /\ source' = src
    /\ non_term' = name
    /\ IF name \in DOMAIN grammar.rules
       THEN begin_parse(grammar.rules[name])
       ELSE /\ pc' = "error"
            /\ ret' = Err("NoStartRule", <<name>>)
            /\ stack' = <<>>
            /\ curr_step' = NoStep
            /\ cache' = EmptyCache
            /\ evals' = EmptyCache

\* the names a caller may ask for: the rules and one name that is no rule
MissingName == "Z"
StartNames == DOMAIN grammar.rules \cup {MissingName}

parse_non_term ==
    /\ pc = "idle"
    /\ iter = NoIter
    /\ \E name \in StartNames, src \in SourcesOf(grammar) : parse_non_term_call(name, src)
    /\ UNCHANGED <<grammar, first, op, iter, conv, memo>>

\* only the NonTerm frames counted against the limit
non_term_too_deep(s) ==
    Len(SelectSeq(s, LAMBDA frame : frame.kind = "ParsingNonTerminal")) > StackLimit

\* the test of check_stack
stack_too_deep(s) == Len(s) > StackLimit

\* the loop body runs while check_stack passes
InLoop == pc = "running" /\ ~stack_too_deep(stack)

AtNode(kind) == InLoop /\ curr_step.kind = "ParsingNode" /\ curr_step.node.kind = kind

\* Action::Push { save_state, next_node, next_pos }
Push(save_state, next_node, next_pos) ==
    /\ stack' = Append(stack, save_state)
    /\ curr_step' = ParsingNode(next_node, next_pos)
    /\ UNCHANGED <<grammar, source, non_term, cache, pc, ret, evals, first, op, iter, conv, memo>>

\* Action::Pop { parsed }
Pop(parsed) ==
    /\ curr_step' = Polling(parsed)
    /\ UNCHANGED <<grammar, source, non_term, stack, cache, pc, ret, first, op, iter, conv, memo>>

\* a panic unwinds out of the call
Panic ==
    /\ pc' = "panic"
    /\ UNCHANGED <<grammar, source, non_term, stack, curr_step, cache, ret, evals, first, op, iter, conv, memo>>

\* an error return of parse_recursive
Fail(error, names) ==
    /\ pc' = "error"
    /\ ret' = Err(error, names)
    /\ UNCHANGED <<grammar, source, non_term, stack, curr_step, cache, evals, first, op, iter, conv, memo>>

\* one more result of NonTerm(key[1]) at offset key[2]
log_eval(e, key, parsed) ==
    [k \in DOMAIN e \cup {key} |->
        IF k = key THEN (IF key \in DOMAIN e THEN Append(e[key], parsed) ELSE <<parsed>>)
        ELSE e[k]]

action_seq ==
    /\ AtNode("Seq")
    /\ LET node == curr_step.node
       IN  IF Len(node.elements) = 0 THEN Panic
           ELSE Push(ParsingSequence(node.elements, <<>>, <<>>), node.elements[1], curr_step.pos)

action_alt ==
    /\ AtNode("Alt")
    /\ LET node == curr_step.node
       IN  IF Len(node.elements) = 0 THEN Panic
           ELSE Push(ParsingChoice(curr_step.pos, node.elements, 0, <<>>),
                     node.elements[1], curr_step.pos)

action_rep ==
    /\ AtNode("Rep")
    /\ LET node == curr_step.node
       IN  Push(ParsingRepetition(curr_step.pos, node.elements[1], node.min, node.max, <<>>, <<>>),
                node.elements[1], curr_step.pos)

\* the leaf token spanning the source from its beginning up to end
terminal_parsed_from_zero(pos, end) ==
    IF IsSome(end)
    THEN Some(Parsed(Token(0, end[1], None, <<>>, {}, <<>>), <<>>, None))
    ELSE None

\* the leaf token of a terminal that matched up to end
terminal_parsed(pos, end) ==
    IF IsSome(end)
    THEN Some(Parsed(Token(pos, end[1], None, <<>>, {}, <<>>), <<>>, None))
    ELSE None

action_terminal ==
    /\ AtNode("Terminal")
    /\ Pop(terminal_parsed(curr_step.pos, parses(curr_step.node.t, source, curr_step.pos)))
    /\ UNCHANGED evals

\* the missing rule taken as a failed match
missing_rule_as_none(name) ==
    /\ Pop(None)
    /\ UNCHANGED evals

\* rules.get(name).ok_or_else(..)?: the error leaves parse_recursive through the ?
missing_rule(name) == Fail("NoRule", <<name>>)

\* the rule entered with its key already in the cache, as a failed match: a
\* reference to the rule at the same offset from inside it is answered from there
action_non_term_seeded ==
    /\ AtNode("NonTerm")
    /\ LET name == curr_step.node.name
           key == cache_key(name, curr_step.pos)
       IN  IF memo /\ key \in DOMAIN cache
           THEN /\ Pop(cache[key])
                /\ evals' = log_eval(evals, <<name, curr_step.pos>>, cache[key])
           ELSE IF name \notin DOMAIN grammar.rules
           THEN missing_rule(name)
           ELSE /\ stack' = Append(stack, ParsingNonTerminal(curr_step.pos, name))
                /\ curr_step' = ParsingNode(grammar.rules[name], curr_step.pos)
                /\ cache' = cache_insert(cache, key, None)
                /\ UNCHANGED <<grammar, source, non_term, pc, ret, evals, first, op, iter,
                               conv, memo>>

action_non_term ==
    /\ AtNode("NonTerm")
    /\ LET name == curr_step.node.name
           key == cache_key(name, curr_step.pos)
       IN  IF memo /\ key \in DOMAIN cache
           THEN /\ Pop(cache[key])
                /\ evals' = log_eval(evals, <<name, curr_step.pos>>, cache[key])
           ELSE IF name \notin DOMAIN grammar.rules
           THEN missing_rule(name)
           ELSE Push(ParsingNonTerminal(curr_step.pos, name), grammar.rules[name], curr_step.pos)

action_tagged ==
    /\ AtNode("Tagged")
    /\ Push(ParsingTagged(curr_step.node.tag), curr_step.node.elements[1], curr_step.pos)

action_meta ==
    /\ AtNode("Meta")
    /\ Push(ParsingMeta(curr_step.node.meta), curr_step.node.elements[1], curr_step.pos)

\* Step::Polling with a frame on the stack
AtPoll(kind) ==
    /\ InLoop
    /\ curr_step.kind = "Polling"
    /\ Len(stack) > 0
    /\ stack[Len(stack)].kind = kind

Top == stack[Len(stack)]
Popped == SubSeq(stack, 1, Len(stack) - 1)

\* stack.pop(), poll, and the match on the StackPoll
polling(frame) ==
    LET p == poll(frame, curr_step.parsed)
    IN  CASE p.kind = "Finished" ->
                /\ stack' = Popped
                /\ curr_step' = Polling(p.parsed)
                /\ pc' = pc
          [] p.kind = "Feed" ->
                /\ stack' = Append(Popped, p.state)
                /\ curr_step' = ParsingNode(p.node, p.pos)
                /\ pc' = pc
          [] OTHER ->
                /\ pc' = "panic"
                /\ UNCHANGED <<stack, curr_step>>

polling_sequence ==
    /\ AtPoll("ParsingSequence")
    /\ polling(Top)
    /\ UNCHANGED <<grammar, source, non_term, cache, ret, evals, first, op, iter, conv, memo>>

polling_choice ==
    /\ AtPoll("ParsingChoice")
    /\ polling(Top)
    /\ UNCHANGED <<grammar, source, non_term, cache, ret, evals, first, op, iter, conv, memo>>

polling_repetition ==
    /\ AtPoll("ParsingRepetition")
    /\ polling(Top)
    /\ UNCHANGED <<grammar, source, non_term, cache, ret, evals, first, op, iter, conv, memo>>

polling_non_terminal ==
    /\ AtPoll("ParsingNonTerminal")
    /\ polling(Top)
    /\ LET parsed == wrap_non_terminal(curr_step.parsed, Top.name)
       IN  /\ cache' = IF memo THEN cache_insert(cache, cache_key(Top.name, Top.start_pos), parsed)
                     ELSE cache
           /\ evals' = log_eval(evals, <<Top.name, Top.start_pos>>,
                                poll(Top, curr_step.parsed).parsed)
    /\ UNCHANGED <<grammar, source, non_term, ret, first, op, iter, conv, memo>>

polling_tagged ==
    /\ AtPoll("ParsingTagged")
    /\ polling(Top)
    /\ UNCHANGED <<grammar, source, non_term, cache, ret, evals, first, op, iter, conv, memo>>

polling_meta ==
    /\ AtPoll("ParsingMeta")
    /\ polling(Top)
    /\ UNCHANGED <<grammar, source, non_term, cache, ret, evals, first, op, iter, conv, memo>>

\* a match that leaves input behind taken as no match
result_if_consumed(parsed) ==
    IF IsSome(parsed) /\ parsed[1].token.span.end = Len(source)
    THEN Some([token |-> parsed[1].token, diagnostics |-> parsed[1].diagnostics])
    ELSE None

\* parsed.map(|t| (t.token, t.diagnostics))
result_of(parsed) ==
    IF IsSome(parsed)
    THEN Some([token |-> parsed[1].token, diagnostics |-> parsed[1].diagnostics])
    ELSE None

\* the break left out: the loop takes the Polling arm again with nothing to pop
finish_without_break ==
    /\ InLoop
    /\ curr_step.kind = "Polling"
    /\ Len(stack) = 0
    /\ UNCHANGED vars

\* Step::Polling with an empty stack: break 'a parsed, then Ok(..)
finish ==
    /\ InLoop
    /\ curr_step.kind = "Polling"
    /\ Len(stack) = 0
    /\ pc' = "done"
    /\ ret' = Ok(result_of(curr_step.parsed))
    /\ UNCHANGED <<grammar, source, non_term, stack, curr_step, cache, evals, first, op, iter, conv, memo>>

\* the names of the NonTerm frames of the stack, outermost first
IsNonTermFrame(frame) == frame.kind = "ParsingNonTerminal"

non_term_stack(s) ==
    LET frames == SelectSeq(s, IsNonTermFrame)
    IN  [i \in DOMAIN frames |-> frames[i].name]

\* check_stack at the head of the loop
check_stack ==
    /\ pc = "running"
    /\ stack_too_deep(stack)
    /\ Fail("RecursionLimit", non_term_stack(stack))

(***************************************************************************)
(* Grammar (basic/grammar.rs): add_element, merge, with_renamed_element    *)
(***************************************************************************)
Grammar(start, rules) == [start |-> start, rules |-> rules]

\* Grammar::new()
NewGrammar == Grammar(None, [n \in {} |-> None])

\* BTreeMap::remove and BTreeMap::insert on the rules
remove(rules, name) == [n \in DOMAIN rules \ {name} |-> rules[n]]
insert(rules, name, element) ==
    [n \in DOMAIN rules \cup {name} |-> IF n = name THEN element ELSE rules[n]]

\* a call on the container: the receiver and the arguments
Call(name, self, rule, new_name, element, other) ==
    [name |-> name, self |-> self, rule |-> rule, new_name |-> new_name,
     element |-> element, other |-> other]
NoCall == Call("", None, "", "", None, None)

\* what a call leaves: the value returned and the receiver as the call left it
Outcome(r, g) == [ret |-> r, grammar |-> g]

\* an existing rule replaced without the equality check
add_element_overwrite(g, name, element) ==
    Outcome(Ok(None), [g EXCEPT !.rules = insert(g.rules, name, element)])

add_element_result(g, name, element) ==
    LET prev == IF name \in DOMAIN g.rules THEN Some(g.rules[name]) ELSE None
        removed == [g EXCEPT !.rules = remove(g.rules, name)]
    IN  IF IsSome(prev) /\ prev[1] # element
        THEN Outcome(Err("Conflict", <<name>>), removed)
        ELSE Outcome(Ok(None), [removed EXCEPT !.rules = insert(removed.rules, name, element)])

\* the rule names in the order a BTreeMap iterates them
NameOrder == <<"A", "B", "E", "N">>

\* the loop of merge over other.rules, from the i-th name on
RECURSIVE merge_from(_, _, _)
merge_from(g, other, i) ==
    IF i > Len(NameOrder) THEN Outcome(Ok(Some(g)), g)
    ELSE IF NameOrder[i] \notin DOMAIN other.rules THEN merge_from(g, other, i + 1)
    ELSE LET r == add_element_result(g, NameOrder[i], other.rules[NameOrder[i]])
         IN  IF r.ret.tag = "Err" THEN r ELSE merge_from(r.grammar, other, i + 1)

\* only the names self lacks are added, with no check of the others
merge_keep_self(g, other) ==
    LET merged == [g EXCEPT !.rules =
                      [n \in DOMAIN g.rules \cup DOMAIN other.rules |->
                          IF n \in DOMAIN g.rules THEN g.rules[n] ELSE other.rules[n]]]
    IN  Outcome(Ok(Some(merged)), merged)

merge_result(g, other) == merge_from(g, other, 1)

\* the rule moved but the references to it left as they were
rename_rule_only(rules, name, new_name) == rules

\* Grammar::to_ebnf(false): "name = body;\n" per rule, from the i-th name on
RECURSIVE rules_to_ebnf(_, _)
rules_to_ebnf(g, i) ==
    IF i > Len(NameOrder) THEN <<>>
    ELSE IF NameOrder[i] \notin DOMAIN g.rules THEN rules_to_ebnf(g, i + 1)
    ELSE <<NameOrder[i], " ", "=", " ">> \o to_ebnf(g.rules[NameOrder[i]]) \o <<";", "\n">>
            \o rules_to_ebnf(g, i + 1)

grammar_to_ebnf(g) == rules_to_ebnf(g, 1)

\* every rule's body after element.rename_reference(name, new_name)
rename_all(rules, name, new_name) ==
    [n \in DOMAIN rules |-> rename_reference(rules[n], name, new_name)]

with_renamed_element_result(g, name, new_name) ==
    IF name \notin DOMAIN g.rules THEN Outcome(Err("NotFound", <<name>>), g)
    ELSE IF new_name \in DOMAIN g.rules THEN Outcome(Err("AlreadyExists", <<new_name>>), g)
    ELSE LET moved == insert(remove(g.rules, name), new_name, g.rules[name])
             renamed == [g EXCEPT !.rules = rename_all(moved, name, new_name)]
         IN  Outcome(Ok(Some(renamed)), renamed)

\* the names and bodies the container is exercised with: a reference alone, and
\* references under Seq, Alt, Rep, Tagged and Meta
OpNames == {"A", "B", "N"}
Nested ==
    SeqNode(<<NonTerm("A"),
              AltNode(<<Rep(Tagged(Meta(NonTerm("B"), {<<"k", "v">>}), "t"), 0, 1),
                        Terminal(String(<<"a">>))>>)>>)
OpElements == {Terminal(String(<<"a">>)), NonTerm("A"), Nested}
OpGrammars ==
    {NewGrammar,
     Grammar(None, [A |-> Terminal(String(<<"a">>))]),
     Grammar(None, [A |-> NonTerm("A"), B |-> Terminal(String(<<"a">>))]),
     Grammar(Some("B"), [B |-> Nested, N |-> NonTerm("A")])}

UnchangedParse == UNCHANGED <<source, non_term, stack, curr_step, cache, evals, first, iter, conv, memo>>

\* grammar.add_element(name, element): the receiver stays with the caller
add_element ==
    /\ pc = "idle"
    /\ \E name \in OpNames, element \in OpElements :
        LET r == add_element_result(grammar, name, element)
        IN  /\ grammar' = r.grammar
            /\ ret' = r.ret
            /\ op' = Call("add_element", Some(grammar), name, "", Some(element), None)
    /\ pc' = "idle"
    /\ UnchangedParse

\* grammar = grammar.merge(other)?: the receiver is consumed, an error ends the run
merge ==
    /\ pc = "idle"
    /\ \E other \in OpGrammars :
        LET r == merge_result(grammar, other)
        IN  /\ grammar' = r.grammar
            /\ ret' = r.ret
            /\ pc' = IF r.ret.tag = "Ok" THEN "idle" ELSE "error"
            /\ op' = Call("merge", Some(grammar), "", "", None, Some(other))
    /\ UnchangedParse

\* grammar = grammar.with_renamed_element(name, new_name)?: as for merge
with_renamed_element ==
    /\ pc = "idle"
    /\ \E name \in OpNames, new_name \in OpNames :
        LET r == with_renamed_element_result(grammar, name, new_name)
        IN  /\ grammar' = r.grammar
            /\ ret' = r.ret
            /\ pc' = IF r.ret.tag = "Ok" THEN "idle" ELSE "error"
            /\ op' = Call("with_renamed_element", Some(grammar), name, new_name, None, None)
    /\ UnchangedParse

(***************************************************************************)
(* Token trees and the iterator calls                                      *)
(***************************************************************************)
\* the trees built by hand: tags and gram labels at depth 0 to 2, spans left empty
Marks ==
    {[tags |-> <<>>, gram |-> None],
     [tags |-> <<"u", "t">>, gram |-> None],
     [tags |-> <<"u">>, gram |-> Some("R")]}
LabelLeaves == {Token(0, 0, m.gram, m.tags, {}, <<>>) : m \in Marks}
LabelMids ==
    {Token(0, 0, m.gram, m.tags, {}, cs) :
        m \in Marks, cs \in {<<>>} \cup {<<c>> : c \in LabelLeaves}}
LabelTrees ==
    {Token(0, 0, m.gram, m.tags, {}, cs) :
        m \in Marks,
        cs \in {<<>>} \cup {<<c>> : c \in LabelMids} \cup {<<c, d>> : c, d \in LabelMids}}

\* the trees built by hand: spans of parents and children unrelated
PosSpans == {<<0, 0>>, <<0, 1>>, <<0, 2>>, <<1, 2>>}
PosLeaves == {Token(sp[1], sp[2], None, <<>>, {}, <<>>) : sp \in PosSpans}
PosMids ==
    {Token(sp[1], sp[2], None, <<>>, {}, cs) :
        sp \in PosSpans, cs \in {<<>>} \cup {<<c>> : c \in PosLeaves}}
PosTrees ==
    {Token(sp[1], sp[2], None, <<>>, {}, cs) :
        sp \in PosSpans,
        cs \in {<<>>} \cup {<<c>> : c \in PosMids}
                      \cup {<<c, d>> : c \in PosMids, d \in PosLeaves}}

Labels == {"t"}
GramNames == {"R"}
Positions == 0..MaxSrcLen

\* the tree the last parse returned, if it returned one
ParsedTrees == IF pc = "done" /\ IsSome(ret.value) THEN {ret.value[1].token} ELSE {}

\* one iterator is made, on a tree built by hand or on the tree a parse returned
CanIterate == iter = NoIter /\ pc \in {"idle", "done"}
TreesFor(hand) == IF pc = "idle" THEN hand ELSE ParsedTrees

UnchangedByIter ==
    UNCHANGED <<grammar, source, non_term, stack, curr_step, cache, pc, ret, evals, first, op,
                conv, memo>>

\* token.iter_label(label): the queue holds the root, nothing is yielded yet
iter_label ==
    /\ CanIterate
    /\ \E root \in TreesFor(LabelTrees), label \in Labels :
        iter' = Iter("label", Some(root), label, 0, <<<<>>>>, None, <<>>, FALSE, pc = "done")
    /\ UnchangedByIter

\* token.iter_grams(gram)
iter_grams ==
    /\ CanIterate
    /\ \E root \in TreesFor(LabelTrees), gram \in GramNames :
        iter' = Iter("grams", Some(root), gram, 0, <<<<>>>>, None, <<>>, FALSE, pc = "done")
    /\ UnchangedByIter

\* token.iter_at_pos(pos): current is the root if its span contains pos
iter_at_pos ==
    /\ CanIterate
    /\ \E root \in TreesFor(PosTrees), pos \in Positions :
        iter' = Iter("at_pos", Some(root), "", pos, <<>>,
                     IF contains(root.span, pos) THEN Some(<<>>) ELSE None,
                     <<>>, FALSE, pc = "done")
    /\ UnchangedByIter

\* the iterator after one next(): the queue left by the closure, the item handed out
after_next(it) ==
    LET n == next_matching(it.root[1], it.kind, it.label, it.stack)
    IN  [it EXCEPT !.stack = n.stack,
                   !.yielded = IF IsSome(n.item) THEN Append(@, n.item[1]) ELSE @,
                   !.done = IsNone(n.item)]

\* next() on the iterator of iter_label
next_label ==
    /\ iter.kind = "label"
    /\ ~iter.done
    /\ iter' = after_next(iter)
    /\ UnchangedByIter

\* next() on the iterator of iter_grams
next_grams ==
    /\ iter.kind = "grams"
    /\ ~iter.done
    /\ iter' = after_next(iter)
    /\ UnchangedByIter

\* next() on the iterator of iter_at_pos
next_at_pos ==
    /\ iter.kind = "at_pos"
    /\ ~iter.done
    /\ IF IsNone(iter.current)
       THEN iter' = [iter EXCEPT !.done = TRUE]
       ELSE iter' = [iter EXCEPT
                        !.current = first_child_at(iter.root[1], iter.current[1], iter.pos, 1),
                        !.yielded = Append(@, iter.current[1])]
    /\ UnchangedByIter

(***************************************************************************)
(* The serialized form of a node (basic/node/serialization.rs, basic.rs)   *)
(* and the conversion calls                                                *)
(***************************************************************************)
\* what a conversion gives: a value, an error of the deserializer, or a panic
Converted(value) == [tag |-> "Ok", value |-> value]
Failed(error) == [tag |-> "Err", value |-> error]

\* a map of one entry: the key names the variant
Entry(key, value) == [key |-> key, value |-> value]

\* SerRange as written: min is skipped when 0, max when usize::MAX
ser_range(min, max) ==
    {<<"min", min>> : m \in {min} \ {0}} \cup {<<"max", max>> : m \in {max} \ {UsizeMax}}

\* SerRange as read: default_start and default_end fill the fields left out
de_range(fields) ==
    [min |-> IF \E f \in fields : f[1] = "min"
             THEN (CHOOSE f \in fields : f[1] = "min")[2] ELSE 0,
     max |-> IF \E f \in fields : f[1] = "max"
             THEN (CHOOSE f \in fields : f[1] = "max")[2] ELSE UsizeMax]

\* impl Serialize for Node
RECURSIVE serialize(_)
serialize(node) ==
    CASE node.kind = "Seq" ->
            Entry("seq", [i \in DOMAIN node.elements |-> serialize(node.elements[i])])
      [] node.kind = "Alt" ->
            Entry("alt", [i \in DOMAIN node.elements |-> serialize(node.elements[i])])
      [] node.kind = "Rep" /\ node.min = 0 /\ node.max = 1 ->
            Entry("opt", serialize(node.elements[1]))
      [] node.kind = "Rep" /\ ~(node.min = 0 /\ node.max = 1) ->
            Entry("rep", [node |-> serialize(node.elements[1]),
                          range |-> ser_range(node.min, node.max)])
      [] node.kind = "Terminal" -> Entry("term", into(node.t))
      [] node.kind = "NonTerm" -> Entry("non_term", node.name)
      [] node.kind = "Tagged" ->
            Entry("tagged", [node |-> serialize(node.elements[1]), tag |-> node.tag])
      [] OTHER ->
            Entry("meta", [node |-> serialize(node.elements[1]), data |-> node.meta])

\* the first result of a sequence of results that is no value, if there is one
first_failure(results) ==
    LET bad == {i \in DOMAIN results : results[i].tag # "Ok"}
    IN  IF bad = {} THEN None ELSE Some(results[CHOOSE i \in bad : \A j \in bad : i <= j])

\* the nodes read from a sequence of serialized nodes, or the first failure
all_or_failure(results, make(_)) ==
    IF IsSome(first_failure(results)) THEN first_failure(results)[1]
    ELSE Converted(make([i \in DOMAIN results |-> results[i].value]))

\* impl Deserialize for Node: NodeVisitor::visit_map
RECURSIVE deserialize(_)
deserialize(ser) ==
    LET inner(value) == deserialize(value)
        boxed(value, make(_)) ==
            IF inner(value).tag # "Ok" THEN inner(value)
            ELSE Converted(make(inner(value).value))
    IN  CASE ser.key = "seq" ->
                all_or_failure([i \in DOMAIN ser.value |-> inner(ser.value[i])], SeqNode)
          [] ser.key = "alt" ->
                all_or_failure([i \in DOMAIN ser.value |-> inner(ser.value[i])], AltNode)
          [] ser.key = "opt" ->
                boxed(ser.value, LAMBDA n : Rep(n, 0, 1))
          [] ser.key = "rep" ->
                boxed(ser.value.node,
                      LAMBDA n : Rep(n, de_range(ser.value.range).min,
                                     de_range(ser.value.range).max))
          [] ser.key = "term" ->
                IF from(ser.value).tag # "Ok" THEN from(ser.value)
                ELSE Converted(Terminal(from(ser.value).value))
          [] ser.key = "non_term" -> Converted(NonTerm(ser.value))
          [] ser.key = "tagged" ->
                boxed(ser.value.node, LAMBDA n : Tagged(n, ser.value.tag))
          [] OTHER -> Failed("unknown_field")

\* a conversion made: the call, what it was made on, the form it went through
Conv(call, input, via, output) ==
    [call |-> call, input |-> input, via |-> via, output |-> output]
NoConv == Conv("", None, None, None)

\* the strings of the terminals converted: with and without slashes at the ends, a
\* slash alone, a quote, the empty string
ConvStrings ==
    {<<>>, <<"a">>, <<"/">>, <<"/", "/">>, <<"/", "a", "/">>, <<"a", "/">>, <<"/", "a">>,
     <<"\"">>, <<"\\", "a">>}
ConvTexts == {String(s) : s \in ConvStrings} \cup {Regex(s) : s \in ConvStrings}

\* the ranges of the repetitions converted
ConvRanges == {<<0, 1>>, <<0, UsizeMax>>, <<1, UsizeMax>>, <<0, 0>>, <<1, 1>>, <<2, 3>>}
ConvMetas == {{}, {<<"k", "v">>}, {<<"k", "v">>, <<"j", "w">>}}

\* the nodes converted: the leaves, the seven variants over a few leaves, and the
\* variants once more over those
ConvLeaves == {Terminal(t) : t \in ConvTexts} \cup {NonTerm("A")}
ConvBase == {ta, Terminal(Regex(<<"a">>)), Terminal(String(<<"/", "a", "/">>)), NonTerm("A")}
ConvOver(nodes) ==
    {SeqNode(<<n>>) : n \in nodes} \cup {SeqNode(<<n, tb>>) : n \in nodes}
        \cup {AltNode(<<ta, n>>) : n \in nodes}
        \cup {Rep(n, r[1], r[2]) : n \in nodes, r \in ConvRanges}
        \cup {Tagged(n, "t") : n \in nodes}
        \cup {Meta(n, m) : n \in nodes, m \in ConvMetas}
ConvMid == ConvOver(ConvBase)
ConvNodes ==
    ConvLeaves \cup ConvMid
        \cup ConvOver({Rep(ta, r[1], r[2]) : r \in ConvRanges}
                        \cup {SeqNode(<<ta, tb>>), AltNode(<<ta, tb>>), Tagged(ta, "s"),
                              Meta(ta, {<<"k", "u">>}),
                              Rep(Terminal(Regex(<<"a">>)), 1, UsizeMax)})

UnchangedByConv ==
    UNCHANGED <<grammar, source, non_term, stack, curr_step, cache, pc, ret, evals, first, op,
                iter, memo>>

\* node.to_ebnf()
node_to_ebnf ==
    /\ \E node \in ConvNodes :
        conv' = Conv("to_ebnf", Some(node), None,
                     IF to_ebnf_panics(node) THEN [tag |-> "Panic", value |-> NoText]
                     ELSE Converted(to_ebnf(node)))
    /\ UnchangedByConv

\* node.serialize(serializer)
node_serialize ==
    /\ \E node \in ConvNodes :
        conv' = Conv("serialize", Some(node), None, Converted(serialize(node)))
    /\ UnchangedByConv

\* Node::deserialize(deserializer) on what the last serialize call wrote
node_deserialize ==
    /\ conv.call = "serialize"
    /\ conv' = Conv("deserialize", conv.input, Some(conv.output.value),
                    deserialize(conv.output.value))
    /\ UnchangedByConv

\* let s: String = text.into()
text_into ==
    /\ \E t \in ConvTexts : conv' = Conv("into", Some(t), None, Converted(into(t)))
    /\ UnchangedByConv

\* Text::from(s) on what the last into call gave
text_from ==
    /\ conv.call = "into"
    /\ conv' = Conv("from", conv.input, Some(conv.output.value), from(conv.output.value))
    /\ UnchangedByConv

(***************************************************************************)
(* The grammars the parser is run on                                       *)
(***************************************************************************)

\* rules without references: repetition, alternation, partial sequences, wrappers
PlainRules ==
    [A |-> Rep(AltNode(<<ta, tab, tb>>), 1, UsizeMax),
     B |-> SeqNode(<<ta, Rep(SeqNode(<<tb, ta>>), 0, UsizeMax)>>),
     C |-> SeqNode(<<ta, Rep(SeqNode(<<tb, ta>>), 1, UsizeMax)>>),
     D |-> SeqNode(<<ta, Rep(tb, 0, 1)>>),
     E |-> AltNode(<<SeqNode(<<ta, tb>>), ta>>),
     F |-> AltNode(<<ta, SeqNode(<<ta, tb>>)>>),
     G |-> AltNode(<<SeqNode(<<tab, tb>>), ta>>),
     H |-> SeqNode(<<SeqNode(<<ta, tb>>), ta>>),
     I |-> Rep(Rep(ta, 0, 1), 0, UsizeMax),
     J |-> Rep(tempty, 1, UsizeMax),
     K |-> Rep(ta, 2, 3),
     L |-> Tagged(Meta(AltNode(<<ta, tb>>), {<<"k", "v">>}), "t"),
     M |-> SeqNode(<<SeqNode(<<ta, tb>>), SeqNode(<<ta, tb>>)>>),
     O |-> Rep(ta, 0, 0),
     Wr |-> Meta(Tagged(Tagged(Meta(ta, {<<"k", "v">>, <<"j", "w">>}), "s"), "t"),
                 {<<"k", "u">>}),
     Zs |-> SeqNode(<<Rep(ta, 0, 1), tb>>),
     Rx |-> SeqNode(<<tb, Terminal(Regex(<<"a">>))>>),
     Tie |-> AltNode(<<SeqNode(<<ta, tb>>), tab, ta>>)]

\* rules with references: memo hits, right recursion, left recursion (direct, and
\* indirect behind a zero-width match), and a reference to a rule that is missing
RefRules ==
    [P |-> Rep(ta, 1, UsizeMax),
     S |-> AltNode(<<SeqNode(<<NonTerm("P"), ta>>), SeqNode(<<NonTerm("P"), tb>>)>>),
     R |-> AltNode(<<SeqNode(<<ta, NonTerm("R")>>), tb>>),
     X |-> AltNode(<<Tagged(NonTerm("R"), "t"), SeqNode(<<NonTerm("R"), tb>>)>>),
     W |-> SeqNode(<<ta, NonTerm("Z")>>),
     Tg |-> Tagged(Meta(tb, {<<"k", "v">>}), "t"),
     Y |-> AltNode(<<Meta(Tagged(NonTerm("Tg"), "s"), {<<"j", "w">>}),
                     SeqNode(<<NonTerm("Tg"), tb>>)>>)]

\* left-recursive rules: direct, and indirect behind a zero-width match
LeftRecRules ==
    [Q |-> AltNode(<<SeqNode(<<NonTerm("Q"), ta>>), ta>>),
     U |-> NonTerm("V"),
     V |-> SeqNode(<<Rep(tb, 0, 1), NonTerm("U")>>)]

\* the grammars of the cases of parsers/tests.rs on "foo": ("foo", ((" ", "bar")+)) and
\* ("foo", ((" ", "bar")*))
FooRules ==
    [Foo |-> SeqNode(<<tfoo, Rep(SeqNode(<<tsp, tbar>>), 1, UsizeMax)>>),
     FooStar |-> SeqNode(<<tfoo, Rep(SeqNode(<<tsp, tbar>>), 0, UsizeMax)>>)]

\* the grammar Grammar::load_ebnf builds from the text of tests::test_parse_complex_ebnf:
\* concatenations and alternations flattened, x* read as Rep(x, 0..), x+ as Rep(x, 1..)
lit(c) == Terminal(String(<<c>>))
ArithRules ==
    [expression |->
        SeqNode(<<NonTerm("term"),
                  Rep(SeqNode(<<AltNode(<<lit("+"), lit("-")>>), NonTerm("term")>>),
                      0, UsizeMax)>>),
     term |->
        SeqNode(<<NonTerm("factor"),
                  Rep(SeqNode(<<AltNode(<<lit("*"), lit("/")>>), NonTerm("factor")>>),
                      0, UsizeMax)>>),
     factor |->
        AltNode(<<SeqNode(<<lit("("), NonTerm("expression"), lit(")")>>), NonTerm("number")>>),
     number |-> Rep(NonTerm("digit"), 1, UsizeMax),
     digit |->
        AltNode(<<lit("0"), lit("1"), lit("2"), lit("3"), lit("4"), lit("5"), lit("6"),
                  lit("7"), lit("8"), lit("9")>>)]

Grammars ==
    {Grammar(None, PlainRules), Grammar(Some("S"), RefRules), Grammar(Some("Q"), LeftRecRules),
     Grammar(Some("Foo"), FooRules), Grammar(Some("expression"), ArithRules)}

\* grammars of one rule E, within what the EBNF text can express: a choice inside a
\* sequence and a sequence inside a choice, a repeated sequence and a sequence that
\* ends in a repetition
EbnfGrammars ==
    {Grammar(None, [E |-> SeqNode(<<AltNode(<<ta, tb>>), tb>>)]),
     Grammar(None, [E |-> AltNode(<<ta, SeqNode(<<tb, tb>>)>>)]),
     Grammar(None, [E |-> Rep(SeqNode(<<ta, tb>>), 1, UsizeMax)]),
     Grammar(None, [E |-> SeqNode(<<ta, Rep(tb, 1, UsizeMax)>>)]),
     Grammar(None, [E |-> SeqNode(<<ta, Rep(tb, 0, 1)>>)])}

\* rules that break the invariant of Seq and Alt: no children
IllRules ==
    [Y |-> SeqNode(<<>>),
     T |-> AltNode(<<>>),
     Yb |-> SeqNode(<<ta, AltNode(<<tb, SeqNode(<<>>)>>)>>)]

IllGrammars == {Grammar(None, IllRules)}

InitWith(grammars) ==
    /\ grammar \in grammars
    /\ source = <<>>
    /\ non_term = ""
    /\ stack = <<>>
    /\ curr_step = NoStep
    /\ cache = EmptyCache
    /\ pc = "idle"
    /\ ret = NoRet
    /\ evals = EmptyCache
    /\ first = None
    /\ op = NoCall
    /\ iter = NoIter
    /\ conv = NoConv
    /\ memo = TRUE

Next ==
    \/ parse_non_term
    \/ check_stack
    \/ action_seq
    \/ action_alt
    \/ action_rep
    \/ action_terminal
    \/ action_non_term
    \/ action_tagged
    \/ action_meta
    \/ polling_sequence
    \/ polling_choice
    \/ polling_repetition
    \/ polling_non_terminal
    \/ polling_tagged
    \/ polling_meta
    \/ finish

Init == InitWith(Grammars)

Spec == Init /\ [][Next]_vars

\* the loop of parse_recursive runs on until it returns
FairSpec == Spec /\ WF_vars(Next)

\* the conversions of nodes and terminals alone
InitConv == InitWith({NewGrammar})

NextConv ==
    \/ node_to_ebnf
    \/ node_serialize
    \/ node_deserialize
    \/ text_into
    \/ text_from

SpecConv == InitConv /\ [][NextConv]_vars

\* the parser on grammars that break the invariant of Seq and Alt as well
InitIll == InitWith(Grammars \cup IllGrammars)

SpecIll == InitIll /\ [][Next]_vars

\* the grammar container, from Grammar::new() on
InitGram ==
    /\ grammar = NewGrammar
    /\ source = <<>>
    /\ non_term = ""
    /\ stack = <<>>
    /\ curr_step = NoStep
    /\ cache = EmptyCache
    /\ pc = "idle"
    /\ ret = NoRet
    /\ evals = EmptyCache
    /\ first = None
    /\ op = NoCall
    /\ iter = NoIter
    /\ conv = NoConv
    /\ memo = TRUE

NextGram ==
    \/ add_element
    \/ merge
    \/ with_renamed_element

SpecGram == InitGram /\ [][NextGram]_vars

\* the names a rule is renamed to: no rule of any grammar; MissingName is referenced by one
FreshNames == {"N", MissingName}

\* grammar.with_renamed_element(non_term, new_name)?.parse_non_term(new_name, source)
\* after grammar.parse_non_term(non_term, source) has returned
rename_then_parse ==
    /\ pc \in {"done", "error"}
    /\ IsNone(first)
    /\ non_term \in DOMAIN grammar.rules
    /\ \E new_name \in FreshNames :
        LET r == with_renamed_element_result(grammar, non_term, new_name)
        IN  /\ r.ret.tag = "Ok"
            /\ grammar' = r.grammar
            /\ op' = Call("with_renamed_element", Some(grammar), non_term, new_name, None, None)
            /\ non_term' = new_name
            /\ begin_parse(r.grammar.rules[new_name])
    /\ first' = Some(ret)
    /\ UNCHANGED <<source, iter, conv, memo>>

\* the reference run of the same call: every NonTerm descends into its rule body,
\* nothing is read from or written to the cache
parse_uncached ==
    /\ pc = "done"
    /\ memo
    /\ IsNone(first)
    /\ iter = NoIter
    /\ first' = Some(ret)
    /\ memo' = FALSE
    /\ begin_parse(grammar.rules[non_term])
    /\ UNCHANGED <<grammar, source, non_term, op, iter, conv>>

NextMemo ==
    \/ Next
    \/ parse_uncached

SpecMemo == Init /\ [][NextMemo]_vars

NextRename ==
    \/ Next
    \/ rename_then_parse

SpecRename == Init /\ [][NextRename]_vars

\* after grammar.parse_non_term(non_term, source) has returned: another grammar whose
\* to_ebnf text is the text of this one is handed the same call
parse_same_ebnf ==
    /\ pc = "done"
    /\ IsNone(first)
    /\ iter = NoIter
    /\ \A name \in DOMAIN grammar.rules : \E i \in DOMAIN NameOrder : NameOrder[i] = name
    /\ \E other \in EbnfGrammars \ {grammar} :
        /\ grammar_to_ebnf(other) = grammar_to_ebnf(grammar)
        /\ grammar' = other
        /\ op' = Call("to_ebnf", Some(grammar), "", "", None, Some(other))
        /\ begin_parse(other.rules[non_term])
    /\ first' = Some(ret)
    /\ UNCHANGED <<source, non_term, iter, conv, memo>>

InitEbnf == InitWith(Grammars \cup EbnfGrammars)

NextEbnf ==
    \/ Next
    \/ parse_same_ebnf

SpecEbnf == InitEbnf /\ [][NextEbnf]_vars

\* parses of the rules with references, and the iterators over trees built by hand
\* and over the trees those parses return
InitToken == InitWith({Grammar(Some("S"), RefRules)})

NextToken ==
    \/ parse_non_term
    \/ action_seq
    \/ action_alt
    \/ action_rep
    \/ action_terminal
    \/ action_non_term
    \/ action_tagged
    \/ polling_sequence
    \/ polling_choice
    \/ polling_repetition
    \/ polling_non_terminal
    \/ polling_tagged
    \/ finish
    \/ iter_label
    \/ iter_grams
    \/ iter_at_pos
    \/ next_label
    \/ next_grams
    \/ next_at_pos

SpecToken == InitToken /\ [][NextToken]_vars

(***************************************************************************)
(* Properties of the parser                                                *)
(***************************************************************************)
Range(f) == {f[i] : i \in DOMAIN f}

\* a token and all its descendants
RECURSIVE Tokens(_)
Tokens(token) == {token} \cup UNION {Tokens(c) : c \in Range(token.children)}

\* the Parsed the step of the loop holds, if it holds one
Yielded(step) == IF step.kind = "Polling" THEN step.parsed ELSE None

Returned == pc = "done" /\ IsSome(ret.value)

\* the last poll of an Alt frame: every alternative has been tried
AltDone == AtPoll("ParsingChoice") /\ Top.current + 1 >= Len(Top.elements)

\* the alternatives of the Alt frame on top that returned some, in declaration order
AltCandidates ==
    [i \in DOMAIN Top.parsed |-> Top.parsed[i][1]] \o curr_step.parsed

\* C1: when the last alternative of an Alt frame has been polled, the frame returns
\* none iff no alternative returned some; otherwise it returns one of the alternatives'
\* results, all of which start at the frame's start offset, its end offset is the
\* greatest among them, and if one of those ending there has no incomplete marker,
\* neither has the returned one.
C1_LongestMatch ==
    [][AltDone =>
        LET cands == AltCandidates
            r == Yielded(curr_step')
        IN  /\ curr_step'.kind = "Polling"
            /\ IsNone(r) <=> Len(cands) = 0
            /\ \A i \in DOMAIN cands : cands[i].token.span.start = Top.start_pos
            /\ IsSome(r) =>
                /\ r[1] \in Range(cands)
                /\ \A i \in DOMAIN cands :
                    /\ cands[i].token.span.end <= r[1].token.span.end
                    /\ (cands[i].token.span.end = r[1].token.span.end
                            /\ IsNone(cands[i].incomplete))
                        => IsNone(r[1].incomplete)]_vars

\* C1 witness: Alt[Seq[a, b], a] on "a" has returned: both alternatives end at 1, the
\* first with an incomplete marker and a diagnostic, and the complete one was taken.
C1_Witness ==
    /\ Returned
    /\ grammar.rules[non_term] = AltNode(<<SeqNode(<<ta, tb>>), ta>>)
    /\ source = <<"a">>
    /\ ret.value[1].token.span.end = 1
    /\ ret.value[1].token.children = <<>>
    /\ ret.value[1].diagnostics = <<>>

C3_MemoSameResult ==
    \A key \in DOMAIN evals :
        \A i, j \in DOMAIN evals[key] : evals[key][i] = evals[key][j]

\* C3 witness: a parse has returned in which a rule was evaluated twice at one offset,
\* the second time from the cache, and matched there.
C3_Witness ==
    /\ \E key \in DOMAIN evals :
        /\ Len(evals[key]) >= 2
        /\ IsSome(evals[key][1])
        /\ evals[key][1][1].token.gram = Some(key[1])
    /\ pc = "done"

\* the spans of one token: ordered, its children in order, and the hull of its children
SpanOk(token) ==
    LET ch == token.children
    IN  /\ token.span.start <= token.span.end
        /\ \A i \in 1..(Len(ch) - 1) : ch[i].span.end <= ch[i + 1].span.start
        /\ Len(ch) > 0 =>
            /\ token.span.start = ch[1].span.start
            /\ token.span.end = ch[Len(ch)].span.end

\* C4: in every result a node or a frame yields (the returned tree among them) every
\* token has start <= end, consecutive siblings do not overlap, and a token with
\* children spans from its first child's start to its last child's end; a childless
\* token of a Rep frame has the empty span at the offset the Rep was entered at.
C4_Spans ==
    [][/\ IsSome(Yielded(curr_step')) =>
            \A token \in Tokens(curr_step'.parsed[1].token) : SpanOk(token)
       /\ AtNode("Rep") => stack'[Len(stack')].start_pos = curr_step.pos
       /\ (AtPoll("ParsingRepetition") /\ IsSome(Yielded(curr_step'))
                /\ Len(curr_step'.parsed[1].token.children) = 0)
            => curr_step'.parsed[1].token.span =
                    [start |-> Top.start_pos, end |-> Top.start_pos]]_vars

\* C4 witness: a returned token with two children, the second a childless token with
\* an empty span past offset 0.
C4_Witness ==
    /\ Returned
    /\ LET token == ret.value[1].token
       IN  /\ Len(token.children) = 2
           /\ token.children[2].children = <<>>
           /\ token.children[2].span = [start |-> 1, end |-> 1]
           /\ token.span = [start |-> 0, end |-> 1]

\* C5: a result yielded by a NonTerm(name) frame or by the memo cache for name has
\* gram = name; one yielded by a Terminal, a Seq frame or a Rep frame has no gram; and
\* in every yielded tree a token with a gram names a rule and has exactly one child,
\* whose span is its own.
C5_RuleLabels ==
    [][LET r == Yielded(curr_step')
       IN  IsSome(r) =>
            /\ \A token \in Tokens(r[1].token) :
                IsSome(token.gram) =>
                    /\ token.gram[1] \in DOMAIN grammar.rules
                    /\ Len(token.children) = 1
                    /\ token.span = token.children[1].span
            /\ AtPoll("ParsingNonTerminal") => r[1].token.gram = Some(Top.name)
            /\ AtNode("NonTerm") => r[1].token.gram = Some(curr_step.node.name)
            /\ (AtNode("Terminal") \/ AtPoll("ParsingSequence") \/ AtPoll("ParsingRepetition"))
                => r[1].token.gram = None]_vars

\* C5 witness: a returned tree whose first child is the token of rule P, taken from the
\* memo cache, with its one child.
C5_Witness ==
    /\ Returned
    /\ Len(ret.value[1].token.children) = 2
    /\ ret.value[1].token.gram = None
    /\ ret.value[1].token.children[1].gram = Some("P")
    /\ Len(ret.value[1].token.children[1].children) = 1
    /\ Len(evals[<<"P", 0>>]) = 2

\* C10 as claimed: a returned token with diagnostics ends at the offset of the last
\* diagnostic, and does not extend past any reported offset.
C10_StopsAtFailure ==
    (Returned /\ Len(ret.value[1].diagnostics) > 0) =>
        LET token == ret.value[1].token
            diagnostics == ret.value[1].diagnostics
        IN  /\ token.span.end = diagnostics[Len(diagnostics)].span.start
            /\ \A i \in DOMAIN diagnostics : token.span.end <= diagnostics[i].span.start

\* C10, amended: every diagnostic of a returned result has an empty span at an offset
\* within the returned token's span, and when the final result still carries an
\* incomplete marker the token ends at the offset of the last diagnostic.
C10_FailureWithinSpan ==
    (Returned /\ Len(ret.value[1].diagnostics) > 0) =>
        LET token == ret.value[1].token
            diagnostics == ret.value[1].diagnostics
        IN  /\ \A i \in DOMAIN diagnostics :
                /\ diagnostics[i].span.start = diagnostics[i].span.end
                /\ token.span.start <= diagnostics[i].span.start
                /\ diagnostics[i].span.start <= token.span.end
            /\ IsSome(curr_step.parsed[1].incomplete) =>
                token.span.end = diagnostics[Len(diagnostics)].span.start

\* C10 witness: a parse has returned two diagnostics, the first before the end of the
\* token, and an incomplete marker with the second at the token's end.
C10_Witness ==
    /\ Returned
    /\ Len(ret.value[1].diagnostics) = 2
    /\ ret.value[1].diagnostics[1].span.start < ret.value[1].token.span.end
    /\ ret.value[1].diagnostics[2].span.start = ret.value[1].token.span.end
    /\ IsSome(curr_step.parsed[1].incomplete)

(***************************************************************************)
(* Repetition bounds, fatal errors, the recursion limit                    *)
(***************************************************************************)
\* the result of the poll made by this step, when the frame on top finished with some
PollResult == curr_step'.parsed[1]
PollFinishedSome == curr_step'.kind = "Polling" /\ IsSome(curr_step'.parsed)

\* the child handed to the Rep frame on top counts: it matched and consumed input
RepChildCounts ==
    /\ IsSome(curr_step.parsed)
    /\ curr_step.parsed[1].token.span.start < curr_step.parsed[1].token.span.end

\* the diagnostics the Rep frame on top holds together with those of the child polled
RepDiagnosticsIn ==
    Len(Top.diagnostics) + (IF RepChildCounts THEN Len(curr_step.parsed[1].diagnostics) ELSE 0)

\* C11: the token a Rep(min..=max) frame finishes with never has more than max
\* children, and has at least min children when the frame added no diagnostic of
\* its own.
C11_RepBounds ==
    [][(AtPoll("ParsingRepetition") /\ PollFinishedSome) =>
        /\ Len(PollResult.token.children) <= Top.max
        /\ Len(PollResult.diagnostics) = RepDiagnosticsIn
            => Len(PollResult.token.children) >= Top.min]_vars

\* C12: a Rep frame with min = 0 never finishes with none; polled at its entry
\* offset with none or with a zero-width match, it finishes with a childless token
\* of empty span at that offset, no diagnostics and no incomplete marker.
C12_OptionalNeverNone ==
    [][(AtPoll("ParsingRepetition") /\ Top.min = 0) =>
        /\ curr_step'.kind = "Polling" => IsSome(curr_step'.parsed)
        /\ (Len(Top.parsed) = 0 /\ ~RepChildCounts) =>
            curr_step' = Polling(Some(Parsed(
                Token(Top.start_pos, Top.start_pos, None, <<>>, {}, <<>>), <<>>, None)))]_vars

\* C12 witness: ("foo", ((" ", "bar")*)) on "foo" has returned the children 0..3
\* and 3..3 and no diagnostics.
C12_Witness ==
    /\ Returned
    /\ non_term = "FooStar"
    /\ source = <<"f", "o", "o">>
    /\ ret.value[1].token.span = [start |-> 0, end |-> 3]
    /\ ret.value[1].token.children =
        <<Token(0, 3, None, <<>>, {}, <<>>), Token(3, 3, None, <<>>, {}, <<>>)>>
    /\ ret.value[1].diagnostics = <<>>

\* C13: a descent into a NonTerm whose name has no rule (and no cache entry at the
\* offset), and a parse_non_term call with a start name that has no rule, return an
\* error: no none, no token, no diagnostic.
C13_MissingRuleIsError ==
    [][/\ (AtNode("NonTerm")
            /\ <<curr_step.node.name, curr_step.pos>> \notin DOMAIN cache
            /\ curr_step.node.name \notin DOMAIN grammar.rules)
          => (pc' = "error" /\ ret'.tag = "Err" /\ IsNone(ret'.value))
       /\ (pc = "idle" /\ pc' # "idle" /\ non_term' \notin DOMAIN grammar.rules)
          => (pc' = "error" /\ ret'.tag = "Err" /\ IsNone(ret'.value))]_vars

\* C13 witness: Seq[a, NonTerm(Z)] has matched its first child and failed on the
\* reference at offset 1.
C13_Witness ==
    /\ pc = "error"
    /\ ret = Err("NoRule", <<MissingName>>)
    /\ Len(stack) > 0
    /\ curr_step.kind = "ParsingNode"
    /\ curr_step.pos = 1

\* C14: on reaching a Seq or an Alt without children the parse call returns an error.
C14_EmptyIsError ==
    [][((AtNode("Seq") \/ AtNode("Alt")) /\ Len(curr_step.node.elements) = 0) =>
        (pc' = "error" /\ ret'.tag = "Err")]_vars

\* the indexes of the NonTerm frames of a stack, and the rank of one among them
NonTermIndexes(s) == {i \in DOMAIN s : s[i].kind = "ParsingNonTerminal"}
RankIn(indexes, i) == Cardinality({j \in indexes : j <= i})

\* names lists the names of the NonTerm frames of s, outermost first
ListsNonTerms(names, s) ==
    LET indexes == NonTermIndexes(s)
    IN  /\ Len(names) = Cardinality(indexes)
        /\ \A i \in indexes : names[RankIn(indexes, i)] = s[i].name

\* C15: a step of the loop that starts with more than 1000 frames on the stack, of
\* whatever kind, returns the recursion-limit error with the names of the NonTerm
\* frames, outermost first; a step that starts with at most 1000 never returns it.
C15_RecursionLimit ==
    [][pc = "running" =>
        IF Len(stack) > 1000
        THEN /\ pc' = "error"
             /\ ret'.tag = "Err"
             /\ ret'.error = "RecursionLimit"
             /\ ListsNonTerms(ret'.names, stack)
        ELSE ~(pc' = "error" /\ ret'.error = "RecursionLimit")]_vars

\* C15 witness: the limit error on a stack of 1001 frames of which some, not all,
\* are NonTerm frames, of two names in turn.
C15_Witness ==
    /\ pc = "error"
    /\ ret.error = "RecursionLimit"
    /\ Len(stack) = 1001
    /\ Len(ret.names) > 1
    /\ Len(ret.names) < Len(stack)
    /\ ret.names[1] # ret.names[2]

(***************************************************************************)
(* The token iterators                                                     *)
(***************************************************************************)
IsPrefix(p, q) == Len(p) <= Len(q) /\ SubSeq(q, 1, Len(p)) = p

\* p comes before q from left to right: at the first index where they differ
LeftOf(p, q) ==
    \E k \in 1..Len(p) :
        /\ k <= Len(q)
        /\ SubSeq(p, 1, k - 1) = SubSeq(q, 1, k - 1)
        /\ p[k] < q[k]

\* p comes before q in pre-order: an ancestor first, else the one in the earlier subtree
PreOrderBefore(p, q) == (p # q /\ IsPrefix(p, q)) \/ LeftOf(p, q)

Queued == iter.kind \in {"label", "grams"}

\* C16 as stated: the tokens are yielded in pre-order.
C16_PreOrder ==
    Queued =>
        \A i, j \in DOMAIN iter.yielded :
            i < j => PreOrderBefore(iter.yielded[i], iter.yielded[j])

\* C16: a matching token is yielded before any of its descendants, and the
\* matching tokens are yielded by increasing depth, from left to right within a depth.
C16_ByDepth ==
    Queued =>
        \A i, j \in DOMAIN iter.yielded :
            i < j =>
                /\ ~IsPrefix(iter.yielded[j], iter.yielded[i])
                /\ Len(iter.yielded[i]) <= Len(iter.yielded[j])
                /\ Len(iter.yielded[i]) = Len(iter.yielded[j])
                    => LeftOf(iter.yielded[i], iter.yielded[j])

\* C16 witness: iter_grams has ended after a token, a token of a later sibling's
\* subtree and a descendant of the first, in this order.
C16_Witness ==
    /\ iter.kind = "grams"
    /\ iter.done
    /\ \E i, j, k \in DOMAIN iter.yielded :
        /\ i < j /\ j < k
        /\ iter.yielded[i] # iter.yielded[k]
        /\ IsPrefix(iter.yielded[i], iter.yielded[k])
        /\ LeftOf(iter.yielded[i], iter.yielded[j])

\* the references to the tokens of a tree level by level, each level left to right
RECURSIVE ConcatChildren(_, _)
ConcatChildren(root, level) ==
    IF Len(level) = 0 THEN <<>>
    ELSE [i \in 1..Len(TokenAt(root, Head(level)).children) |-> Append(Head(level), i)]
            \o ConcatChildren(root, Tail(level))
RECURSIVE LevelsFrom(_, _)
LevelsFrom(root, level) ==
    IF Len(level) = 0 THEN <<>> ELSE level \o LevelsFrom(root, ConcatChildren(root, level))
LevelOrder(root) == LevelsFrom(root, <<<<>>>>)

\* the token at path p passes the filter of the iterator in use
Passes(p) ==
    LET token == TokenAt(iter.root[1], p)
    IN  IF iter.kind = "label" THEN iter.label \in Range(token.tags)
        ELSE token.gram = <<iter.label>>

\* C17: iter_label and iter_grams yield the tokens of the tree that pass the
\* filter, the root included, each once, whatever their ancestors are, by
\* increasing depth and left to right within a depth.
C17_ExactlyMatchingByLevel ==
    Queued =>
        LET expected == SelectSeq(LevelOrder(iter.root[1]), Passes)
        IN  /\ IsPrefix(iter.yielded, expected)
            /\ iter.done => iter.yielded = expected

\* C17 witness: iter_label has ended having yielded a token at depth 1, whose parent
\* does not match, before a token at depth 2 under an earlier sibling.
C17_Witness ==
    /\ iter.kind = "label"
    /\ iter.done
    /\ ~Passes(<<>>)
    /\ \E i, j \in DOMAIN iter.yielded :
        /\ i < j
        /\ Len(iter.yielded[i]) = 1
        /\ Len(iter.yielded[j]) = 2
        /\ iter.yielded[j][1] < iter.yielded[i][1]

\* pos lies in the half-open span of the token at path p
At(p) ==
    LET span == TokenAt(iter.root[1], p).span
    IN  span.start <= iter.pos /\ iter.pos < span.end

\* every path of the tree
RECURSIVE PathsFrom(_, _)
PathsFrom(root, p) ==
    {p} \cup UNION {PathsFrom(root, Append(p, i)) : i \in 1..Len(TokenAt(root, p).children)}

\* C18: iter_at_pos yields nothing when the root's span does not contain pos;
\* otherwise the root, then each time a child of the token before that contains pos,
\* down to a token with no child containing pos; on a tree returned by the parser
\* that last token is the deepest one containing pos.
C18_DescendingChain ==
    (iter.kind = "at_pos" /\ iter.done) =>
        LET y == iter.yielded
        IN  IF ~At(<<>>) THEN y = <<>>
            ELSE /\ Len(y) > 0
                 /\ y[1] = <<>>
                 /\ \A i \in DOMAIN y : At(y[i])
                 /\ \A i \in 1..(Len(y) - 1) :
                        Len(y[i + 1]) = Len(y[i]) + 1 /\ IsPrefix(y[i], y[i + 1])
                 /\ \A c \in 1..Len(TokenAt(iter.root[1], y[Len(y)]).children) :
                        ~At(Append(y[Len(y)], c))
                 /\ iter.parsed =>
                        \A p \in PathsFrom(iter.root[1], <<>>) :
                            At(p) => (Len(p) < Len(y[Len(y)]) \/ p = y[Len(y)])

\* C18 witness: on a tree returned by the parser, a chain of three tokens or more
\* below which other tokens do not contain pos.
C18_Witness ==
    /\ iter.kind = "at_pos"
    /\ iter.done
    /\ iter.parsed
    /\ Len(iter.yielded) >= 3
    /\ \E p \in PathsFrom(iter.root[1], <<>>) : ~At(p)

(***************************************************************************)
(* The EBNF text                                                           *)
(***************************************************************************)
\* C19: two grammars with the same to_ebnf text parse every input alike (what the
\* import of that one text gives cannot behave like both otherwise).
C19_SameTextSameParse ==
    (op.name = "to_ebnf" /\ pc = "done") => ret = first[1]

\* C20: ("foo", ((" ", "bar")+)) on "foo" returns the token 0..3 with the one child
\* 0..3 and the one diagnostic Incomplete 3..3 expecting ( " " "bar" )+ .
C20_FooExpectsGroup ==
    (pc = "done" /\ non_term = "Foo" /\ source = <<"f", "o", "o">>) =>
        ret.value =
            Some([token |-> Token(0, 3, None, <<>>, {}, <<Token(0, 3, None, <<>>, {}, <<>>)>>),
                  diagnostics |->
                      <<Incomplete(3, 3,
                          <<"(", " ", "\"", " ", "\"", " ", "\"", "b", "a", "r", "\"",
                            " ", ")", "+">>)>>])

(***************************************************************************)
(* The grammar container                                                   *)
(***************************************************************************)
\* a node with the name of every reference blanked
RECURSIVE Shape(_)
Shape(node) ==
    IF node.kind = "NonTerm" THEN [node EXCEPT !.name = ""]
    ELSE [node EXCEPT !.elements = [i \in DOMAIN node.elements |-> Shape(node.elements[i])]]

\* the names of the references of a node, left to right
RECURSIVE Refs(_)
RECURSIVE RefsOfAll(_)
RefsOfAll(elements) ==
    IF Len(elements) = 0 THEN <<>>
    ELSE Refs(Head(elements)) \o RefsOfAll(Tail(elements))
Refs(node) == IF node.kind = "NonTerm" THEN <<node.name>> ELSE RefsOfAll(node.elements)

Swap(x, old, new) == IF x = old THEN new ELSE x
SwapAll(xs, old, new) == [i \in DOMAIN xs |-> Swap(xs[i], old, new)]

\* after is before with every NonTerm(old) turned into NonTerm(new) and nothing else changed
RenamedBody(before, after, old, new) ==
    /\ Shape(after) = Shape(before)
    /\ Refs(after) = SwapAll(Refs(before), old, new)

\* C7: with_renamed_element(old, new) fails when old is no rule or new is one
\* (old = new included); otherwise the grammar returned has no rule old, has the
\* rule new with old's body, keeps every other rule name, and every body is the
\* one it was with each NonTerm(old), at any depth, turned into NonTerm(new).
C7_Renamed ==
    op.name = "with_renamed_element" =>
        LET g == op.self[1]
            old == op.rule
            new == op.new_name
        IN  IF old \notin DOMAIN g.rules \/ new \in DOMAIN g.rules
            THEN ret.tag = "Err"
            ELSE /\ ret = Ok(Some(grammar))
                 /\ old \notin DOMAIN grammar.rules
                 /\ DOMAIN grammar.rules = (DOMAIN g.rules \ {old}) \cup {new}
                 /\ \A n \in DOMAIN grammar.rules :
                        RenamedBody(g.rules[Swap(n, new, old)], grammar.rules[n], old, new)

\* a rename that succeeded on a rule referenced, under a composite node, by another rule
C7_Witness ==
    /\ op.name = "with_renamed_element"
    /\ ret.tag = "Ok"
    /\ \E n \in DOMAIN grammar.rules \ {op.new_name} :
        /\ grammar.rules[n].kind = "Seq"
        /\ op.new_name \in Range(Refs(grammar.rules[n]))
        /\ op.rule \in Range(Refs(op.self[1].rules[n]))

\* C8: add_element(name, node) succeeds and maps name to node when name is
\* absent, succeeds and leaves the rules as they were when name maps to an equal
\* node, and returns the conflict error when name maps to a different node.
C8_Add ==
    op.name = "add_element" =>
        LET g == op.self[1]
            name == op.rule
            node == op.element[1]
        IN  /\ name \notin DOMAIN g.rules =>
                /\ ret.tag = "Ok"
                /\ DOMAIN grammar.rules = DOMAIN g.rules \cup {name}
                /\ grammar.rules[name] = node
                /\ \A n \in DOMAIN g.rules : grammar.rules[n] = g.rules[n]
            /\ (name \in DOMAIN g.rules /\ g.rules[name] = node) =>
                /\ ret.tag = "Ok"
                /\ grammar.rules = g.rules
            /\ (name \in DOMAIN g.rules /\ g.rules[name] # node) =>
                /\ ret.tag = "Err"
                /\ ret.error = "Conflict"

\* an add of a different node under a name that has a rule, among other rules
C8_Witness ==
    /\ op.name = "add_element"
    /\ op.rule \in DOMAIN op.self[1].rules
    /\ op.self[1].rules[op.rule] # op.element[1]
    /\ DOMAIN op.self[1].rules # {op.rule}
    /\ ret.tag = "Err"

Agree(a, b) == \A n \in DOMAIN a.rules \cap DOMAIN b.rules : a.rules[n] = b.rules[n]
UnionRules(a, b) ==
    [n \in DOMAIN a.rules \cup DOMAIN b.rules |->
        IF n \in DOMAIN a.rules THEN a.rules[n] ELSE b.rules[n]]

\* C9: merge(self, other) succeeds iff self and other agree on every name both
\* define; then the rules are the union of the two rule sets, the same rules
\* merge(other, self) gives; otherwise it returns the conflict error of add.
C9_Merge ==
    op.name = "merge" =>
        LET a == op.self[1]
            b == op.other[1]
            swapped == merge_result(b, a)
        IN  /\ ret.tag = "Ok" <=> Agree(a, b)
            /\ swapped.ret.tag = ret.tag
            /\ Agree(a, b) =>
                /\ ret = Ok(Some(grammar))
                /\ grammar.rules = UnionRules(a, b)
                /\ swapped.grammar.rules = grammar.rules
            /\ ~Agree(a, b) =>
                /\ ret.tag = "Err"
                /\ ret.error = "Conflict"

\* a merge that succeeded where each side has a rule the other lacks and one they share
C9_Witness ==
    /\ op.name = "merge"
    /\ ret.tag = "Ok"
    /\ DOMAIN op.self[1].rules \cap DOMAIN op.other[1].rules # {}
    /\ DOMAIN op.self[1].rules \ DOMAIN op.other[1].rules # {}
    /\ DOMAIN op.other[1].rules \ DOMAIN op.self[1].rules # {}

(***************************************************************************)
(* Rename equivalence                                                      *)
(***************************************************************************)
\* the names referenced by the rule bodies of a grammar
Referenced(g) == UNION {Range(Refs(g.rules[n])) : n \in DOMAIN g.rules}

RECURSIVE RenamedToken(_, _, _)
RenamedToken(token, old, new) ==
    [token EXCEPT !.gram = IF token.gram = Some(old) THEN Some(new) ELSE token.gram,
                  !.children = [i \in DOMAIN token.children |->
                                    RenamedToken(token.children[i], old, new)]]

RenamedDiagnostic(d, old, new) == [d EXCEPT !.expected = SwapAll(d.expected, old, new)]

\* a result of parse_non_term with the rule name old read as new
RenamedResult(r, old, new) ==
    IF r.tag = "Err" THEN Err(r.error, SwapAll(r.names, old, new))
    ELSE IF IsNone(r.value) THEN r
    ELSE Ok(Some([token |-> RenamedToken(r.value[1].token, old, new),
                  diagnostics |-> [i \in DOMAIN r.value[1].diagnostics |->
                      RenamedDiagnostic(r.value[1].diagnostics[i], old, new)]]))

Reparsed == IsSome(first) /\ pc \in {"done", "error"}

\* C6 as stated: the parse of r' after the rename returns the very result the
\* parse of r returned before it.
C6_RenameSameResult ==
    Reparsed => ret = first[1]

\* C6: when r' is neither a rule nor referenced by a rule, the parse of r' after
\* the rename returns the result of the parse of r with r' in place of r in the
\* gram labels, in the expected texts and in the rule names of an error.
C6_RenameUpToName ==
    (Reparsed /\ op.new_name \notin Referenced(op.self[1])) =>
        ret = RenamedResult(first[1], op.rule, op.new_name)

\* a parse after a rename that returned a tree holding a token of the renamed rule
C6_Witness ==
    /\ Reparsed
    /\ op.new_name \notin Referenced(op.self[1])
    /\ ret.tag = "Ok"
    /\ IsSome(ret.value)
    /\ \E t \in Tokens(ret.value[1].token) : t.gram = Some(op.new_name)
    /\ ret # first[1]

NonEmptySpan(token) == token.span.start < token.span.end

\* C26: the children a Rep frame holds after a poll, and those of the token it
\* finishes with, all have a non-empty span; polled with a zero-width match the frame
\* finishes, with what it gives when polled with none, and without the match among
\* the children.
C26_RepChildrenNonEmpty ==
    [][AtPoll("ParsingRepetition") =>
        /\ PollFinishedSome =>
            \A i \in DOMAIN PollResult.token.children : NonEmptySpan(PollResult.token.children[i])
        /\ curr_step'.kind = "ParsingNode" =>
            \A i \in DOMAIN stack'[Len(stack')].parsed :
                NonEmptySpan(stack'[Len(stack')].parsed[i])
        /\ (IsSome(curr_step.parsed) /\ ~RepChildCounts) =>
            /\ curr_step' = Polling(poll(Top, None).parsed)
            /\ PollFinishedSome => PollResult.token.children = Top.parsed]_vars

\* C26 witness: ([a])* on "a" has returned one child 0..1: the second match of [a],
\* 1..1, ended the repetition and is not among the children.
C26_Witness ==
    /\ Returned
    /\ non_term = "I"
    /\ source = <<"a">>
    /\ ret.value[1].token.span = [start |-> 0, end |-> 1]
    /\ Len(ret.value[1].token.children) = 1
    /\ ret.value[1].token.children[1].span = [start |-> 0, end |-> 1]

Keys(meta) == {p[1] : p \in meta}

\* C28: a Tagged or Meta frame finishes with none exactly when polled with none;
\* polled with some, a Tagged frame gives the inner result with its tag after the
\* inner tags and a Meta frame gives it with the union of the two maps, its own
\* value for a key both hold; span, gram, children, diagnostics and incomplete
\* marker are the inner ones.  So the token of nested wrappers carries the tags inner
\* to outer and the outermost value of a key.
C28_Wrappers ==
    [][/\ AtPoll("ParsingTagged") =>
            IF IsNone(curr_step.parsed) THEN curr_step' = Polling(None)
            ELSE curr_step' = Polling(Some(
                    [curr_step.parsed[1] EXCEPT !.token.tags = @ \o <<Top.tag>>]))
       /\ AtPoll("ParsingMeta") =>
            IF IsNone(curr_step.parsed) THEN curr_step' = Polling(None)
            ELSE curr_step' = Polling(Some(
                    [curr_step.parsed[1] EXCEPT !.token.meta =
                        {p \in @ : p[1] \notin Keys(Top.meta)} \cup Top.meta]))
       /\ (pc' = "done" /\ non_term' = "Wr" /\ IsSome(ret'.value)) =>
            /\ ret'.value[1].token.tags = <<"s", "t">>
            /\ ret'.value[1].token.meta = {<<"k", "u">>, <<"j", "w">>}]_vars

\* C28 witness: Meta{k: u}(Tagged t (Tagged s (Meta{k: v, j: w}(a)))) on "a" has
\* returned the terminal's token 0..1 with the tags s, t and the meta k: u, j: w.
C28_Witness ==
    /\ Returned
    /\ non_term = "Wr"
    /\ source = <<"a">>
    /\ ret.value[1].token = Token(0, 1, None, <<"s", "t">>, {<<"k", "u">>, <<"j", "w">>}, <<>>)
    /\ ret.value[1].diagnostics = <<>>

(***************************************************************************)
(* A failed add                                                            *)
(***************************************************************************)
\* C30: after an add_element call that returned the conflict error the grammar is
\* the one the call was made on: the rule of that name with its old body, every
\* other rule, and the start field.
C30_ConflictKeepsGrammar ==
    (op.name = "add_element" /\ ret.tag = "Err" /\ ret.error = "Conflict") =>
        /\ op.rule \in DOMAIN grammar.rules
        /\ grammar = op.self[1]

(***************************************************************************)
(* The conversions: EBNF text, serialized form, terminal strings           *)
(***************************************************************************)
\* C21: a node written by serialize is read back by deserialize as an equal node;
\* Rep(0..=1), and no other node, is written under the key opt; the range of a Rep
\* is written without min when min is 0 and without max when max is the maximum.
C21_SerializedRoundTrip ==
    /\ conv.call = "deserialize" => conv.output = Converted(conv.input[1])
    /\ (conv.call = "serialize" /\ conv.input[1].kind = "Rep") =>
        LET node == conv.input[1]
            written == conv.output.value
        IN  /\ written.key = "opt" <=> (node.min = 0 /\ node.max = 1)
            /\ written.key = "rep" =>
                /\ (\E f \in written.value.range : f[1] = "min") <=> node.min # 0
                /\ (\E f \in written.value.range : f[1] = "max") <=> node.max # UsizeMax

\* the text the claim gives a terminal: a literal quoted, a regex between slashes
RenderedText(t) ==
    IF t.kind = "String" THEN <<"\"">> \o escape_debug(t.s) \o <<"\"">>
    ELSE <<"/">> \o t.s \o <<"/">>

\* the text the claim gives a node whose repetitions all have one of the three ranges
RECURSIVE Rendered(_)
Rendered(node) ==
    LET parts == [i \in DOMAIN node.elements |-> Rendered(node.elements[i])]
    IN  CASE node.kind = "Seq" -> Join(parts, <<" ">>)
          [] node.kind = "Alt" -> Join(parts, <<" ", "|", " ">>)
          [] node.kind = "Rep" /\ node.max = 1 -> <<"[">> \o parts[1] \o <<"]">>
          [] node.kind = "Rep" /\ node.max # 1 /\ node.min = 0 -> parts[1] \o <<"*">>
          [] node.kind = "Rep" /\ node.max # 1 /\ node.min # 0 -> parts[1] \o <<"+">>
          [] node.kind = "Terminal" -> RenderedText(node.t)
          [] node.kind = "NonTerm" -> <<node.name>>
          [] OTHER -> parts[1]

\* a repetition of the node or below it has a range that is none of the three
RECURSIVE OtherRange(_)
OtherRange(node) ==
    \/ /\ node.kind = "Rep"
       /\ ~(node.min = 0 /\ node.max = 1)
       /\ ~(node.min = 0 /\ node.max = UsizeMax)
       /\ ~(node.min = 1 /\ node.max = UsizeMax)
    \/ \E i \in DOMAIN node.elements : OtherRange(node.elements[i])

\* C23: to_ebnf gives the children of a Seq joined by a space, those of an Alt joined
\* by " | ", [x] for Rep(0..=1), x* for Rep(0..=MAX), x+ for Rep(1..=MAX), a literal
\* in quotes, a regex between slashes, the name of a NonTerm, and the inner text for
\* Tagged and Meta; it gives no text but fails when a repetition has another range.
C23_Renderings ==
    conv.call = "to_ebnf" =>
        IF OtherRange(conv.input[1]) THEN conv.output.tag = "Panic"
        ELSE conv.output = Converted(Rendered(conv.input[1]))

\* C23 witness: the choice of the literal a and the regex a repeated once or more has
\* been rendered "a" | /a/+.
C23_Witness ==
    /\ conv.call = "to_ebnf"
    /\ conv.input = Some(AltNode(<<ta, Rep(Terminal(Regex(<<"a">>)), 1, UsizeMax)>>))
    /\ conv.output = Converted(<<"\"", "a", "\"", " ", "|", " ", "/", "a", "/", "+">>)

\* C29: a terminal converted to its string and back is the terminal it was: the
\* conversion back gives a value, and a literal comes back a literal.
C29_TextRoundTrip ==
    conv.call = "from" => conv.output = Converted(conv.input[1])

(***************************************************************************)
(* The arithmetic grammar                                                  *)
(***************************************************************************)
\* C22: the parse of (1+2)*33 from the rule expression of the arithmetic grammar
\* returns some token spanning 0..8 and no diagnostics, and the tree holds a token
\* of the rule factor with a descendant of the rule expression spanning 1..4.
C22_Arithmetic ==
    (pc \in {"done", "error", "panic"} /\ non_term = "expression"
        /\ source = <<"(", "1", "+", "2", ")", "*", "3", "3">>) =>
        /\ Returned
        /\ ret.value[1].token.span = [start |-> 0, end |-> 8]
        /\ ret.value[1].diagnostics = <<>>
        /\ \E f \in Tokens(ret.value[1].token) :
            /\ f.gram = Some("factor")
            /\ \E e \in Tokens(f) \ {f} :
                e.gram = Some("expression") /\ e.span = [start |-> 1, end |-> 4]

\* C22 witness: that parse has returned, and the factor 0..5 holds the three children
\* of its first alternative: the parenthesis, the expression 1..4, the parenthesis.
C22_Witness ==
    /\ Returned
    /\ non_term = "expression"
    /\ source = <<"(", "1", "+", "2", ")", "*", "3", "3">>
    /\ \E f \in Tokens(ret.value[1].token) :
        /\ f.gram = Some("factor")
        /\ f.span = [start |-> 0, end |-> 5]
        /\ Len(f.children) = 1
        /\ Len(f.children[1].children) = 3
        /\ f.children[1].children[2].gram = Some("expression")
        /\ f.children[1].children[2].span = [start |-> 1, end |-> 4]

(***************************************************************************)
(* The start field across a rename                                         *)
(***************************************************************************)
\* C31: after a with_renamed_element call that succeeded on a grammar whose start
\* field named one of its rules, the start field of the grammar names one of its
\* rules.
C31_StartResolvable ==
    (op.name = "with_renamed_element"
        /\ IsSome(op.self[1].start)
        /\ op.self[1].start[1] \in DOMAIN op.self[1].rules) =>
        /\ IsSome(grammar.start)
        /\ grammar.start[1] \in DOMAIN grammar.rules

(***************************************************************************)
(* The memo cache                                                          *)
(***************************************************************************)
\* the run without the cache has ended, after the run with it returned
RanBoth == ~memo /\ IsSome(first) /\ pc \in {"done", "error"}

\* C32: when the parse with the cache and the run of the same call without it have
\* both returned, they returned the same value: the same none, or the same token
\* tree and the same diagnostics.
C32_MemoTransparent ==
    RanBoth => (pc = "done" /\ ret = first[1])

\* C32 witness: both runs of (P a | P b) on "ab" have returned the second
\* alternative; the run with the cache answered its P from the cache, for the run
\* without it P at 0 has been evaluated twice.
C32_Witness ==
    /\ RanBoth
    /\ non_term = "S"
    /\ source = <<"a", "b">>
    /\ IsSome(ret.value)
    /\ ret.value[1].token.span = [start |-> 0, end |-> 2]
    /\ Len(evals[<<"P", 0>>]) = 2
    /\ cache = EmptyCache

\* the root token of a result carries no tag and no metadata
Unmarked(parsed) == IsSome(parsed) => (parsed[1].token.tags = <<>> /\ parsed[1].token.meta = {})

\* C33: during a parse an entry of the cache is never removed or changed, and a
\* NonTerm whose key is in the cache gets exactly the entry; every entry, and every
\* result a NonTerm(n) at an offset came back with, has a root token without tags
\* and metadata, whatever Tagged or Meta was wrapped around another occurrence.
C33_CacheWriteOnce ==
    /\ [](\A k \in DOMAIN cache : Unmarked(cache[k]))
    /\ [](\A k \in DOMAIN evals : \A i \in DOMAIN evals[k] : Unmarked(evals[k][i]))
    /\ [][pc = "running" =>
            /\ \A k \in DOMAIN cache : k \in DOMAIN cache' /\ cache'[k] = cache[k]
            /\ (AtNode("NonTerm")
                    /\ cache_key(curr_step.node.name, curr_step.pos) \in DOMAIN cache) =>
                    curr_step' = Polling(cache[cache_key(curr_step.node.name, curr_step.pos)])]_vars

\* C33 witness: ((Tg tagged "s") with metadata | Tg "b") on "bb" returned the second
\* alternative: its Tg at 0 came from the cache, written under the first
\* alternative's wrappers, and carries neither "s" nor the key "j".
C33_Witness ==
    /\ pc = "done"
    /\ non_term = "Y"
    /\ source = <<"b", "b">>
    /\ Len(evals[<<"Tg", 0>>]) = 2
    /\ IsSome(ret.value)
    /\ ret.value[1].token.span.end = 2
    /\ ret.value[1].token.children[1].gram = Some("Tg")
    /\ ret.value[1].token.children[1].tags = <<>>
    /\ ret.value[1].token.children[1].meta = {}

(***************************************************************************)
(* Diagnostics                                                             *)
(***************************************************************************)
\* the results a node has come back with: the one that is being handed to the frame
\* below, and the ones kept in the cache
Results ==
    (IF curr_step.kind = "Polling" THEN {curr_step.parsed} ELSE {})
        \cup {cache[k] : k \in DOMAIN cache}

\* the last diagnostic of the result is the one of its incomplete marker
MarkerReported(p) ==
    /\ p.diagnostics # <<>>
    /\ p.diagnostics[Len(p.diagnostics)] =
            [span |-> [start |-> p.token.span.end, end |-> p.token.span.end],
             expected |-> to_ebnf(p.incomplete[1])]

\* C34: every result with an incomplete marker has diagnostics, and the last of them
\* has the empty span at the end of the result's token and the EBNF of the marker's
\* node as expected; the result of a Terminal has no marker.
C34_MarkerReported ==
    /\ [](\A r \in Results : (IsSome(r) /\ IsSome(r[1].incomplete)) => MarkerReported(r[1]))
    /\ [][AtNode("Terminal") =>
            (IsSome(curr_step'.parsed) => IsNone(curr_step'.parsed[1].incomplete))]_vars

\* C34 witness: (("a", "b"), ("a", "b")) on "aa" has ended with the marker of the
\* second inner sequence handed through the outer one, behind the diagnostic of the
\* first.
C34_Witness ==
    /\ pc = "done"
    /\ non_term = "M"
    /\ source = <<"a", "a">>
    /\ IsSome(curr_step.parsed)
    /\ curr_step.parsed[1].incomplete = Some(tb)
    /\ Len(curr_step.parsed[1].diagnostics) = 2
    /\ curr_step.parsed[1].token.span.end = 2

\* C35: the diagnostics of a returned result have empty spans at offsets from the
\* start to the end of the result's token, and are listed by non-decreasing offset.
C35_DiagnosticsOrdered ==
    Returned =>
        LET token == ret.value[1].token
            d == ret.value[1].diagnostics
        IN  /\ \A i \in DOMAIN d :
                /\ DOMAIN d[i] = {"span", "expected"}
                /\ d[i].span.start = d[i].span.end
                /\ token.span.start <= d[i].span.start
                /\ d[i].span.end <= token.span.end
            /\ \A i, j \in DOMAIN d : i < j => d[i].span.start <= d[j].span.start

\* C35 witness: (("a", "b"), ("a", "b")) on "aa" returned the token 0..2 with the
\* diagnostics of the two inner sequences, at 1 and at 2.
C35_Witness ==
    /\ Returned
    /\ non_term = "M"
    /\ ret.value[1].token.span = [start |-> 0, end |-> 2]
    /\ Len(ret.value[1].diagnostics) = 2
    /\ ret.value[1].diagnostics[1].span.start = 1
    /\ ret.value[1].diagnostics[2].span.start = 2

(***************************************************************************)
(* The choice among the alternatives                                       *)
(***************************************************************************)
\* the candidates that end where the result of the Alt frame ends, as complete as it
Tied(cands, result) ==
    {i \in DOMAIN cands :
        /\ cands[i].token.span.end = result.token.span.end
        /\ IsNone(cands[i].incomplete) <=> IsNone(result.incomplete)}

\* C36: when the last alternative of an Alt frame has been polled and some
\* alternative matched, the frame returns, of the alternatives that end where its
\* result ends and are as complete, the one declared last.
C36_LastDeclaredWins ==
    [][(AltDone /\ AltCandidates # <<>>) =>
        LET cands == AltCandidates
            tied == Tied(cands, PollResult)
        IN  /\ PollFinishedSome
            /\ tied # {}
            /\ PollResult = cands[CHOOSE i \in tied : \A j \in tied : j <= i]]_vars

\* C36 witness: (("a", "b") | "ab" | "a") on "ab" returned the leaf token of "ab",
\* declared after the sequence that ends at 2 as well.
C36_Witness ==
    /\ Returned
    /\ non_term = "Tie"
    /\ source = <<"a", "b">>
    /\ ret.value[1].token = Token(0, 2, None, <<>>, {}, <<>>)

\* the candidates that no other candidate outranks: the greatest end, and complete
\* when one that ends there is
TopRanked(cands) ==
    {i \in DOMAIN cands : \A j \in DOMAIN cands :
        \/ cands[j].token.span.end < cands[i].token.span.end
        \/ /\ cands[j].token.span.end = cands[i].token.span.end
           /\ IsNone(cands[j].incomplete) => IsNone(cands[i].incomplete)}

\* the alternative the Alt frame on top selects
Selected(cands) == cands[CHOOSE i \in TopRanked(cands) : \A j \in TopRanked(cands) : j <= i]

\* C37: when the last alternative of an Alt frame has been polled and some
\* alternative matched, the diagnostics of the frame's result are those of the
\* selected alternative, no more and no fewer; and the diagnostics of the value the
\* parse returns are those of the result of its outermost node.
C37_OnlySelectedDiagnostics ==
    /\ [][(AltDone /\ AltCandidates # <<>>) =>
            /\ PollFinishedSome
            /\ PollResult.diagnostics = Selected(AltCandidates).diagnostics]_vars
    /\ [][(pc = "running" /\ pc' = "done" /\ IsSome(curr_step.parsed)) =>
            /\ IsSome(ret'.value)
            /\ ret'.value[1].diagnostics = curr_step.parsed[1].diagnostics]_vars

\* C37 witness: (("a", "b") | "a") on "a" returned the token of "a" without a
\* diagnostic; the sequence, tried first, had reported that "b" is missing at 1.
C37_Witness ==
    /\ Returned
    /\ non_term = "E"
    /\ source = <<"a">>
    /\ ret.value[1].diagnostics = <<>>
    /\ ret.value[1].token = Token(0, 1, None, <<>>, {}, <<>>)

(***************************************************************************)
(* Spans                                                                   *)
(***************************************************************************)
\* the first child of the token starts where the token starts, and every other child
\* where the child before it ends
Contiguous(t) ==
    t.children # <<>> =>
        /\ t.children[1].span.start = t.span.start
        /\ \A i \in 1..(Len(t.children) - 1) :
                t.children[i].span.end = t.children[i + 1].span.start

\* C38: the token of a Terminal, of a NonTerm answered from the cache, and of an
\* Alt, a Rep and a rule that finished, starts at the offset the node was attempted
\* at; in every token of every result the first child starts where the token
\* starts and each further child where the one before it ends; the token the parse
\* returns starts at 0.
C38_SpansFollowOffsets ==
    /\ [][(AtNode("Terminal") \/ AtNode("NonTerm")) =>
            (PollFinishedSome => PollResult.token.span.start = curr_step.pos)]_vars
    /\ [][(AtPoll("ParsingChoice") \/ AtPoll("ParsingRepetition")
                \/ AtPoll("ParsingNonTerminal")) =>
            (PollFinishedSome => PollResult.token.span.start = Top.start_pos)]_vars
    /\ [](\A r \in Results : IsSome(r) => \A t \in Tokens(r[1].token) : Contiguous(t))
    /\ [](Returned => ret.value[1].token.span.start = 0)

\* C38 witness: ("a", ("b", "a")*) on "aba" returned the token 0..3 of "a" at 0..1
\* and the repetition at 1..3, whose one child holds "b" at 1..2 and "a" at 2..3.
C38_Witness ==
    /\ Returned
    /\ non_term = "B"
    /\ source = <<"a", "b", "a">>
    /\ ret.value[1].token.span = [start |-> 0, end |-> 3]
    /\ ret.value[1].token.children[2].span = [start |-> 1, end |-> 3]
    /\ ret.value[1].token.children[2].children[1].children[2].span = [start |-> 2, end |-> 3]

\* the start node matched without a diagnostic and stopped before the end of the source
MatchedPrefix ==
    /\ pc = "done"
    /\ IsSome(curr_step.parsed)
    /\ curr_step.parsed[1].diagnostics = <<>>
    /\ curr_step.parsed[1].token.span.end < Len(source)

\* C39: when the start node matched a proper prefix of the source without a
\* diagnostic, the parse returns some of that token and of no diagnostics: the rest
\* of the source is not reported.
C39_PrefixAccepted ==
    MatchedPrefix =>
        /\ ret.tag = "Ok"
        /\ ret.value = Some([token |-> curr_step.parsed[1].token, diagnostics |-> <<>>])
        /\ ret.value[1].token.span.end < Len(source)

\* C39 witness: ("a", ("b")?) on "abb" returned the token 0..2 and no diagnostic.
C39_Witness ==
    /\ MatchedPrefix
    /\ non_term = "D"
    /\ source = <<"a", "b", "b">>
    /\ ret.value[1].token.span = [start |-> 0, end |-> 2]
    /\ ret.value[1].diagnostics = <<>>

(***************************************************************************)
(* Left recursion                                                          *)
(***************************************************************************)
\* the loop is at NonTerm(n) at offset p while a frame of rule n entered at p is on
\* the stack
LeftRecursion ==
    /\ pc = "running"
    /\ curr_step.kind = "ParsingNode"
    /\ curr_step.node.kind = "NonTerm"
    /\ \E i \in DOMAIN stack :
        /\ stack[i].kind = "ParsingNonTerminal"
        /\ stack[i].name = curr_step.node.name
        /\ stack[i].start_pos = curr_step.pos

\* C40: when the loop reaches NonTerm(n) at offset p with a frame of n entered at p
\* on the stack, the cache has no entry for (n, p), the call never returns a token
\* or none from then on, and it ends with the recursion-limit error.
C40_LeftRecursionFails ==
    /\ [](LeftRecursion =>
            cache_key(curr_step.node.name, curr_step.pos) \notin DOMAIN cache)
    /\ [](LeftRecursion => [](pc # "done"))
    /\ (LeftRecursion ~> (pc = "error" /\ ret.tag = "Err" /\ ret.error = "RecursionLimit"))

\* C40 witness: U = V, V = (("b")?, U) on the empty source: the optional "b" matched
\* nothing at 0, U was reached again at 0 inside its own frame, more than once, and
\* the call ended with the recursion-limit error.
C40_Witness ==
    /\ pc = "error"
    /\ ret.error = "RecursionLimit"
    /\ non_term = "U"
    /\ source = <<>>
    /\ curr_step.kind = "ParsingNode"
    /\ Cardinality({i \in DOMAIN stack :
            stack[i].kind = "ParsingNonTerminal" /\ stack[i].name = "U"
                /\ stack[i].start_pos = 0}) > 1
    /\ cache = EmptyCache

====
